---- MODULE Spec2Model ----
(***************************************************************************)
(* Crop-track backend (src/backend/app.py, src/backend/models.py): the     *)
(* checkpoint loader.  Model files found at start-up are loaded lazily by  *)
(* load_model, which reads the artifact, unwraps it to a parameter map,    *)
(* detects the class count, picks the BinaryCNN_Deep variant, builds the   *)
(* architecture, binds the weights in two tiers and caches the instance.   *)
(*                                                                         *)
(* Python strings are sequences of one-character strings, so that          *)
(* substring tests, lower() and the regular expression of                  *)
(* _extract_layer_index are computed, not assumed.                         *)
(***************************************************************************)
EXTENDS Integers, Sequences, FiniteSets, TLC

VARIABLES
    loaded_models,   \* app.py:68  name -> cached model instance
    model_paths,     \* app.py:69  name -> path of the artifact file
    model_configs,   \* app.py:70  name -> [num_classes, class_names]
    files,           \* the models directory: path -> content of the file
    th,              \* per request thread: position in load_model and its locals
    reads,           \* name -> number of torch.load calls made for it
    failed,          \* names for which some load_model call has raised
    arg,             \* input of the function under test (function specifications)
    ret,             \* its result
    scan,            \* scan_for_models: pth_files, the position in them, the files reported unmatched
    db,              \* the database: the rows of fields, spots and analysis_results
    rq               \* the requests to the field and spot handlers: per thread its form and session, and the last response

vars == <<loaded_models, model_paths, model_configs, files, th, reads, failed, arg, ret, scan, db, rq>>

-----------------------------------------------------------------------------
(* Bounds *)

NumThreads == 2
MaxEntries == 3
MaxWrapperKeys == 2
MaxKeyLen == 5
MaxFiles == 2

-----------------------------------------------------------------------------
(* Python strings *)

s_weight == <<"w","e","i","g","h","t">>
s_bias == <<"b","i","a","s">>
s_classifier == <<"c","l","a","s","s","i","f","i","e","r">>
s_fc == <<"f","c">>
s_head == <<"h","e","a","d">>
s_state_dict == <<"s","t","a","t","e","_","d","i","c","t">>
s_model == <<"m","o","d","e","l">>
s_model_state_dict == <<"m","o","d","e","l","_","s","t","a","t","e","_","d","i","c","t">>
s_classifier_4_weight == <<"c","l","a","s","s","i","f","i","e","r",".","4",".","w","e","i","g","h","t">>
s_features == <<"f","e","a","t","u","r","e","s">>
s_running_mean == <<"r","u","n","n","i","n","g","_","m","e","a","n">>
s_running_var == <<"r","u","n","n","i","n","g","_","v","a","r">>
s_num_batches_tracked == <<"n","u","m","_","b","a","t","c","h","e","s","_","t","r","a","c","k","e","d">>
s_conv1 == <<"c","o","n","v","1">>
s_conv2 == <<"c","o","n","v","2">>
s_bn1 == <<"b","n","1">>
s_bn2 == <<"b","n","2">>
s_shortcut == <<"s","h","o","r","t","c","u","t">>
s_layer == <<"l","a","y","e","r">>
s_dot == <<".">>
s_epoch == <<"e","p","o","c","h">>
s_Model_EMA == <<"M","o","d","e","l","_","E","M","A">>
s_net_State_Dict == <<"n","e","t","_","S","t","a","t","e","_","D","i","c","t">>
s_Head == <<"H","e","a","d">>
s_layer4 == <<"l","a","y","e","r","4">>
s_proj == <<"p","r","o","j">>
s_module == <<"m","o","d","u","l","e">>

Digit == <<"0","1","2","3","4","5","6","7","8","9">>

IsDigit(c) == \E d \in 1..10 : Digit[d] = c

DigitVal(c) == (CHOOSE d \in 1..10 : Digit[d] = c) - 1

\* str(n) for n >= 0
RECURSIVE Dec(_)
Dec(n) == IF n < 10 THEN <<Digit[n + 1]>> ELSE Dec(n \div 10) \o <<Digit[(n % 10) + 1]>>

\* int(s) for a string of decimal digits
RECURSIVE ParseInt(_)
ParseInt(s) ==
    IF Len(s) = 0 THEN 0
    ELSE 10 * ParseInt(SubSeq(s, 1, Len(s) - 1)) + DigitVal(s[Len(s)])

Upper == <<"A","B","C","D","E","F","G","H","I","J","K","L","M","N","O","P","Q","R","S","T","U","V","W","X","Y","Z">>
LowerLetters == <<"a","b","c","d","e","f","g","h","i","j","k","l","m","n","o","p","q","r","s","t","u","v","w","x","y","z">>

\* str.lower()
lower(s) ==
    [i \in 1..Len(s) |->
        IF \E u \in 1..26 : Upper[u] = s[i]
        THEN LowerLetters[CHOOSE u \in 1..26 : Upper[u] = s[i]]
        ELSE s[i]]

\* sub in s
Contains(sub, s) ==
    \E i \in 0..(Len(s) - Len(sub)) : SubSeq(s, i + 1, i + Len(sub)) = sub

\* s1 + "." + s2
Dotted(s1, s2) == s1 \o s_dot \o s2

-----------------------------------------------------------------------------
(* Python values held by a checkpoint *)

\* dictionary keys: strings, or anything else (here an int)
PyStr(s) == [t |-> "str", s |-> s, n |-> 0]
PyInt(n) == [t |-> "int", s |-> <<>>, n |-> n]

\* a tensor with a shape; id names its contents
Tensor(shape, id) ==
    [kind |-> "tensor", shape |-> shape, items |-> <<>>, id |-> id, metadata |-> {}]
\* a dict: its items in iteration order; metadata is empty for a mapping
\* without the _metadata attribute
PyDict(items) ==
    [kind |-> "dict", shape |-> <<>>, items |-> items, id |-> 0, metadata |-> {}]
\* the OrderedDict Module.state_dict() returns, as torch.save and torch.load
\* keep it: metadata holds the names of the modules for which its _metadata
\* records version 2, which are the BatchNorm modules of the model
StateDict(items, metadata) ==
    [kind |-> "dict", shape |-> <<>>, items |-> items, id |-> 0, metadata |-> metadata]
\* a list: its members in order
PyList(items) ==
    [kind |-> "list", shape |-> <<>>, items |-> items, id |-> 0, metadata |-> {}]
\* a number such as an epoch counter
PyNum(n) == [kind |-> "num", shape |-> <<>>, items |-> <<>>, id |-> n, metadata |-> {}]
\* an object that is not a mapping (a pickled nn.Module, torch.save(model, path))
PyObject == [kind |-> "object", shape |-> <<>>, items |-> <<>>, id |-> 0, metadata |-> {}]
\* None
None == [kind |-> "None", shape |-> <<>>, items |-> <<>>, id |-> 0, metadata |-> {}]
\* a file torch.load cannot deserialize
Corrupt == [kind |-> "corrupt", shape |-> <<>>, items |-> <<>>, id |-> 0, metadata |-> {}]

Item(k, v) == [k |-> k, v |-> v]

IsDict(v) == v.kind = "dict"
IsTensor(v) == v.kind = "tensor"

\* key in d
HasKey(d, k) == \E i \in 1..Len(d.items) : d.items[i].k = k

\* d[key]
Get(d, k) == d.items[CHOOSE i \in 1..Len(d.items) : d.items[i].k = k].v

-----------------------------------------------------------------------------
(* _extract_layer_index: re.search(r'\.(\d+)\.', key) *)

\* a match of \.(\d+)\. starts at i and its digits end at j
MatchAt(key, i, j) ==
    /\ key[i] = "."
    /\ j > i
    /\ j < Len(key)
    /\ \A p \in (i + 1)..j : IsDigit(key[p])
    /\ key[j + 1] = "."

HasMatch(key) == \E i \in 1..Len(key) : \E j \in 1..Len(key) : MatchAt(key, i, j)

\* the index taken from the first run of digits anywhere in the key, as
\* re.search(r'(\d+)', key) would
_extract_layer_index_AnyDigits(key) ==
    IF \E p \in 1..Len(key) : IsDigit(key[p])
    THEN LET i == CHOOSE p \in 1..Len(key) :
                      IsDigit(key[p]) /\ \A q \in 1..(p - 1) : ~IsDigit(key[q])
             j == CHOOSE q \in i..Len(key) :
                      /\ \A r \in i..q : IsDigit(key[r])
                      /\ q = Len(key) \/ ~IsDigit(key[q + 1])
         IN ParseInt(SubSeq(key, i, j))
    ELSE 0

_extract_layer_index(key) ==
    IF HasMatch(key)
    THEN LET i == CHOOSE p \in 1..Len(key) :
                      /\ \E j \in 1..Len(key) : MatchAt(key, p, j)
                      /\ \A q \in 1..(p - 1) : ~ \E j \in 1..Len(key) : MatchAt(key, q, j)
             j == CHOOSE q \in 1..Len(key) : MatchAt(key, i, q)
         IN ParseInt(SubSeq(key, i + 1, j))
    ELSE 0

-----------------------------------------------------------------------------
(* detect_num_classes_from_checkpoint *)

\* results of a Python call: a value (None or an int) or a raised exception
Returned(n) == [raised |-> "", none |-> FALSE, n |-> n]
ReturnedNone == [raised |-> "", none |-> TRUE, n |-> 0]
Raised(e) == [raised |-> e, none |-> TRUE, n |-> 0]

\* what evaluating  'weight' in key and len(tensor.shape) == 2 ...  raises for one item:
\* "in" needs an iterable key, .shape needs a tensor
ItemRaises(it) ==
    IF it.k.t # "str" THEN "TypeError"
    ELSE IF Contains(s_weight, it.k.s) /\ ~IsTensor(it.v) THEN "AttributeError"
    ELSE ""

\* the test without  'weight' in key
IsCandidate_AnyKey(it) ==
    /\ it.k.t = "str"
    /\ IsTensor(it.v)
    /\ Len(it.v.shape) = 2
    /\ \E term \in {s_classifier, s_fc, s_head} : Contains(term, lower(it.k.s))

\* app.py:168-170
IsCandidate(it) ==
    /\ it.k.t = "str"
    /\ Contains(s_weight, it.k.s)
    /\ IsTensor(it.v)
    /\ Len(it.v.shape) = 2
    /\ \E term \in {s_classifier, s_fc, s_head} : Contains(term, lower(it.k.s))

\* app.py:171-180
Candidate(it) ==
    [key |-> it.k.s,
     output_dim |-> it.v.shape[1],
     input_dim |-> it.v.shape[2],
     index |-> _extract_layer_index(it.k.s)]

\* app.py:167-180: the candidates in the order of state_dict.items()
CandidateLayers(items) ==
    LET kept == SelectSeq(items, IsCandidate)
    IN [i \in 1..Len(kept) |-> Candidate(kept[i])]

\* the candidates left in the order of the checkpoint (the sort forgotten)
SortByIndexDesc_Unsorted(s) == s

\* list.sort(key=lambda x: x['index'], reverse=True): stable, so equal indexes keep
\* the order in which they were appended
RECURSIVE SortByIndexDesc(_)
SortByIndexDesc(s) ==
    IF Len(s) <= 1 THEN s
    ELSE LET front == SortByIndexDesc(SubSeq(s, 1, Len(s) - 1))
             x == s[Len(s)]
             p == Cardinality({i \in 1..Len(front) : front[i].index >= x.index})
         IN SubSeq(front, 1, p) \o <<x>> \o SubSeq(front, p + 1, Len(front))

Reasonable(layer) == 2 <= layer.output_dim /\ layer.output_dim <= 100

detect_num_classes_from_checkpoint(state_dict) ==
    IF ~IsDict(state_dict) THEN Raised("AttributeError")
    ELSE IF \E i \in 1..Len(state_dict.items) : ItemRaises(state_dict.items[i]) # ""
    THEN Raised(ItemRaises(state_dict.items[
             CHOOSE i \in 1..Len(state_dict.items) :
                 /\ ItemRaises(state_dict.items[i]) # ""
                 /\ \A j \in 1..(i - 1) : ItemRaises(state_dict.items[j]) = ""]))
    ELSE LET candidate_layers == SortByIndexDesc(CandidateLayers(state_dict.items))
         IN IF Len(candidate_layers) = 0 THEN ReturnedNone
            ELSE IF \E i \in 1..Len(candidate_layers) : Reasonable(candidate_layers[i])
            THEN Returned(candidate_layers[
                     CHOOSE i \in 1..Len(candidate_layers) :
                         /\ Reasonable(candidate_layers[i])
                         /\ \A j \in 1..(i - 1) : ~Reasonable(candidate_layers[j])].output_dim)
            ELSE Returned(candidate_layers[1].output_dim)

-----------------------------------------------------------------------------
(* the checkpoint formats of load_model, app.py:240-257 *)

\* the keys the scan of app.py:250-253 visits before it stops
MatchesWrapper(k) ==
    k.t = "str" /\ (Contains(s_state_dict, lower(k.s)) \/ Contains(s_model, lower(k.s)))

\* the first key at which the scan stops: a match, or a key without lower()
ScanStops(checkpoint, i) ==
    /\ checkpoint.items[i].k.t # "str" \/ MatchesWrapper(checkpoint.items[i].k)
    /\ \A j \in 1..(i - 1) :
           checkpoint.items[j].k.t = "str" /\ ~MatchesWrapper(checkpoint.items[j].k)

\* the value state_dict is left with, and the exception raised on the way; a
\* first match that holds None leaves the checkpoint itself (app.py:254-255)
normalize(checkpoint) ==
    IF IsDict(checkpoint)
    THEN IF HasKey(checkpoint, PyStr(s_model_state_dict))
         THEN [raised |-> "", state_dict |-> Get(checkpoint, PyStr(s_model_state_dict))]
         ELSE IF HasKey(checkpoint, PyStr(s_state_dict))
         THEN [raised |-> "", state_dict |-> Get(checkpoint, PyStr(s_state_dict))]
         ELSE IF HasKey(checkpoint, PyStr(s_model))
         THEN [raised |-> "", state_dict |-> Get(checkpoint, PyStr(s_model))]
         ELSE IF \E i \in 1..Len(checkpoint.items) : ScanStops(checkpoint, i)
         THEN LET i == CHOOSE p \in 1..Len(checkpoint.items) : ScanStops(checkpoint, p)
              IN IF checkpoint.items[i].k.t # "str"
                 THEN [raised |-> "AttributeError", state_dict |-> None]
                 ELSE IF checkpoint.items[i].v = None
                 THEN [raised |-> "", state_dict |-> checkpoint]
                 ELSE [raised |-> "", state_dict |-> checkpoint.items[i].v]
         ELSE [raised |-> "", state_dict |-> checkpoint]
    ELSE [raised |-> "", state_dict |-> checkpoint]

-----------------------------------------------------------------------------
(* models.py: the parameters and buffers of the architectures, in the order *)
(* of state_dict(), each with its shape                                     *)

Param(k, shape) == [k |-> k, shape |-> shape]

\* nn.Conv2d(cin, cout, kernel_size): weight, and bias unless bias=False
Conv2d(prefix, cin, cout, ksize, bias) ==
    <<Param(Dotted(prefix, s_weight), <<cout, cin, ksize, ksize>>)>>
    \o (IF bias THEN <<Param(Dotted(prefix, s_bias), <<cout>>)>> ELSE <<>>)

\* nn.BatchNorm2d(c): weight, bias and the three buffers
BatchNorm2d(prefix, c) ==
    <<Param(Dotted(prefix, s_weight), <<c>>),
      Param(Dotted(prefix, s_bias), <<c>>),
      Param(Dotted(prefix, s_running_mean), <<c>>),
      Param(Dotted(prefix, s_running_var), <<c>>),
      Param(Dotted(prefix, s_num_batches_tracked), <<>>)>>

\* nn.Linear(in_features, out_features)
Linear(prefix, in_features, out_features) ==
    <<Param(Dotted(prefix, s_weight), <<out_features, in_features>>),
      Param(Dotted(prefix, s_bias), <<out_features>>)>>

\* the i-th child of an nn.Sequential
Child(prefix, i) == Dotted(prefix, Dec(i))

\* a Conv2d followed by its BatchNorm2d at positions i and i+1 of features
ConvBN(i, cin, cout) ==
    Conv2d(Child(s_features, i), cin, cout, 3, TRUE) \o BatchNorm2d(Child(s_features, i + 1), cout)

CustomCNN1(num_classes) ==
    ConvBN(0, 3, 32) \o ConvBN(3, 32, 32)
    \o ConvBN(7, 32, 64) \o ConvBN(10, 64, 64)
    \o ConvBN(14, 64, 128) \o ConvBN(17, 128, 128)
    \o ConvBN(21, 128, 256) \o ConvBN(24, 256, 256)
    \o Linear(Child(s_classifier, 1), 256, 128)
    \o Linear(Child(s_classifier, 4), 128, num_classes)

BinaryCNN_Light(num_classes) ==
    ConvBN(0, 3, 32) \o ConvBN(4, 32, 64) \o ConvBN(8, 64, 128) \o ConvBN(12, 128, 256)
    \o Linear(Child(s_classifier, 1), 256, 128)
    \o Linear(Child(s_classifier, 4), 128, num_classes)

BasicBlock(prefix, inplanes, planes, stride) ==
    Conv2d(Dotted(prefix, s_conv1), inplanes, planes, 3, FALSE)
    \o BatchNorm2d(Dotted(prefix, s_bn1), planes)
    \o Conv2d(Dotted(prefix, s_conv2), planes, planes, 3, FALSE)
    \o BatchNorm2d(Dotted(prefix, s_bn2), planes)
    \o (IF stride # 1 \/ inplanes # planes
        THEN Conv2d(Child(Dotted(prefix, s_shortcut), 0), inplanes, planes, 1, FALSE)
             \o BatchNorm2d(Child(Dotted(prefix, s_shortcut), 1), planes)
        ELSE <<>>)

\* _make_layer(inplanes, planes, 2, stride), assigned to self.layer<n>
_make_layer(n, inplanes, planes, stride) ==
    BasicBlock(Child(s_layer \o Dec(n), 0), inplanes, planes, stride)
    \o BasicBlock(Child(s_layer \o Dec(n), 1), planes, planes, 1)

\* conv1, bn1 and the four residual layers shared by CustomCNN2 and BinaryCNN_Deep
ResidualTrunk ==
    Conv2d(s_conv1, 3, 64, 7, TRUE) \o BatchNorm2d(s_bn1, 64)
    \o _make_layer(1, 64, 64, 1) \o _make_layer(2, 64, 128, 2)
    \o _make_layer(3, 128, 256, 2) \o _make_layer(4, 256, 512, 2)

DeepClassifier(num_classes) ==
    Linear(Child(s_classifier, 1), 512, 256)
    \o Linear(Child(s_classifier, 4), 256, 128)
    \o Linear(Child(s_classifier, 7), 128, num_classes)

CustomCNN2(num_classes) == ResidualTrunk \o DeepClassifier(num_classes)

BinaryCNN_Deep(num_classes, variant) ==
    ResidualTrunk
    \o (IF variant = "simple" \/ variant = "checkpoint"
        THEN Linear(Child(s_classifier, 1), 512, 128)
             \o Linear(Child(s_classifier, 4), 128, num_classes)
        ELSE DeepClassifier(num_classes))

\* the names create_model_architecture has a branch for
Constructors ==
    {"ShuffleNet", "MobileNetV3", "EfficientNet", "CustomCNN1", "CustomCNN2", "CustomCNN3",
     "BinaryCNN_Light", "BinaryCNN_Deep", "BinaryCNN_Efficient"}

\* the chain of models.py:391-413 with the branch of BinaryCNN_Deep left out
create_model_architecture_raises_NoDeep(model_name) ==
    IF model_name \in Constructors \ {"BinaryCNN_Deep"} THEN "" ELSE "ValueError"

\* models.py:391-413: the exception of the final else, "" when a branch builds
create_model_architecture_raises(model_name) ==
    IF model_name = "ShuffleNet" THEN ""
    ELSE IF model_name = "MobileNetV3" THEN ""
    ELSE IF model_name = "EfficientNet" THEN ""
    ELSE IF model_name = "CustomCNN1" THEN ""
    ELSE IF model_name = "CustomCNN2" THEN ""
    ELSE IF model_name = "CustomCNN3" THEN ""
    ELSE IF model_name = "BinaryCNN_Light" THEN ""
    ELSE IF model_name = "BinaryCNN_Deep" THEN ""
    ELSE IF model_name = "BinaryCNN_Efficient" THEN ""
    ELSE "ValueError"

\* the architectures whose layers are written out here; the torchvision ones
\* and the MBConv ones (CustomCNN3, BinaryCNN_Efficient) are not
Modelled == {"CustomCNN1", "CustomCNN2", "BinaryCNN_Light", "BinaryCNN_Deep"}

\* state_dict() of create_model_architecture(model_name, num_classes, variant)
create_model_architecture(model_name, num_classes, variant) ==
    IF model_name = "CustomCNN1" THEN CustomCNN1(num_classes)
    ELSE IF model_name = "CustomCNN2" THEN CustomCNN2(num_classes)
    ELSE IF model_name = "BinaryCNN_Light" THEN BinaryCNN_Light(num_classes)
    ELSE BinaryCNN_Deep(num_classes, variant)

-----------------------------------------------------------------------------
(* torch.nn.Module.load_state_dict(state_dict, strict=False), as load_model *)
(* uses it (app.py:313 and app.py:354)                                      *)

Range(f) == {f[i] : i \in DOMAIN f}

\* a copy that takes the tensor of the checkpoint whatever its shape
CopyOutcome_IgnoresShape(param, state_dict) ==
    IF ~HasKey(state_dict, PyStr(param.k)) THEN "absent"
    ELSE IF ~IsTensor(Get(state_dict, PyStr(param.k))) THEN "not_tensor"
    ELSE "copied"

\* the num_batches_tracked buffer of a BatchNorm2d
IsNumBatchesTracked(param) ==
    /\ Len(param.k) >= Len(s_num_batches_tracked)
    /\ SubSeq(param.k, Len(param.k) - Len(s_num_batches_tracked) + 1, Len(param.k))
           = s_num_batches_tracked

\* the name of the module a parameter or buffer belongs to: its key without
\* the last component
ModuleOf(k) ==
    LET dots == {i \in 1..Len(k) : k[i] = "."}
    IN IF dots = {} THEN <<>>
       ELSE SubSeq(k, 1, (CHOOSE i \in dots : \A j \in dots : j <= i) - 1)

\* the BatchNorm modules of a model: what the _metadata of its state_dict()
\* records version 2 for
TrackedModules(model_state) ==
    {ModuleOf(model_state[i].k) :
        i \in {j \in 1..Len(model_state) : IsNumBatchesTracked(model_state[j])}}

\* what happens to one parameter of the module. A BatchNorm2d whose
\* num_batches_tracked the mapping lacks puts its own buffer into the mapping
\* when the mapping's _metadata has no entry for this module or gives it a
\* version below 2 ("supplied"); a value of one dimension for a parameter of
\* none is replaced by its element 0, which raises IndexError when it has none
CopyOutcome(param, state_dict) ==
    IF ~HasKey(state_dict, PyStr(param.k))
    THEN IF IsNumBatchesTracked(param) /\ ModuleOf(param.k) \notin state_dict.metadata
         THEN "supplied" ELSE "absent"
    ELSE LET v == Get(state_dict, PyStr(param.k))
         IN IF ~IsTensor(v) THEN "not_tensor"
            ELSE IF param.shape = <<>> /\ Len(v.shape) = 1
            THEN IF v.shape[1] = 0 THEN "index_error" ELSE "copied"
            ELSE IF v.shape # param.shape THEN "size_mismatch"
            ELSE "copied"

\* the parameters of the module that received the value of the checkpoint:
\* pairs <<position in state_dict(), id of the tensor copied>>. The modules
\* are visited in the order of state_dict(), and none is visited after the
\* one that raises IndexError
Copied(model_state, state_dict) ==
    LET raising == {j \in 1..Len(model_state) :
                       CopyOutcome(model_state[j], state_dict) = "index_error"}
        visited == IF raising = {} THEN 1..Len(model_state)
                   ELSE 1..((CHOOSE j \in raising : \A i \in raising : j <= i) - 1)
    IN {<<i, Get(state_dict, PyStr(model_state[i].k)).id>> :
           i \in {j \in visited : CopyOutcome(model_state[j], state_dict) = "copied"}}

ModelKeys(model_state) == {model_state[i].k : i \in 1..Len(model_state)}

\* load_state_dict(state_dict) with the default strict=True: missing and
\* unexpected keys raise as well
load_state_dict_Strict(model_state, state_dict) ==
    IF ~IsDict(state_dict)
    THEN [raised |-> "TypeError", size_mismatch |-> FALSE,
          missing_keys |-> {}, unexpected_keys |-> {}, copied |-> {}]
    ELSE IF \E i \in 1..Len(state_dict.items) : state_dict.items[i].k.t # "str"
    THEN [raised |-> "AttributeError", size_mismatch |-> FALSE,
          missing_keys |-> {}, unexpected_keys |-> {}, copied |-> {}]
    ELSE LET outcome == [i \in 1..Len(model_state) |-> CopyOutcome(model_state[i], state_dict)]
             outcomes == Range(outcome)
             model_keys == ModelKeys(model_state)
             unexpected == {state_dict.items[i].k.s : i \in
                               {j \in 1..Len(state_dict.items) :
                                   state_dict.items[j].k.s \notin model_keys}}
         IN [raised |-> IF "index_error" \in outcomes THEN "IndexError"
                        ELSE IF outcomes \ {"copied", "supplied"} # {} \/ unexpected # {}
                        THEN "RuntimeError" ELSE "",
             size_mismatch |-> "size_mismatch" \in outcomes,
             missing_keys |-> {model_state[i].k : i \in
                                 {j \in 1..Len(model_state) : outcome[j] = "absent"}},
             unexpected_keys |-> unexpected,
             copied |-> Copied(model_state, state_dict)]

\* raised: the exception, "" for none; size_mismatch: whether the message of the
\* RuntimeError has a "size mismatch" line. The IndexError of a parameter
\* leaves load_state_dict at once; the RuntimeError is raised after every
\* parameter was visited
load_state_dict(model_state, state_dict) ==
    IF ~IsDict(state_dict)
    THEN [raised |-> "TypeError", size_mismatch |-> FALSE,
          missing_keys |-> {}, unexpected_keys |-> {}, copied |-> {}]
    ELSE IF \E i \in 1..Len(state_dict.items) : state_dict.items[i].k.t # "str"
    THEN [raised |-> "AttributeError", size_mismatch |-> FALSE,
          missing_keys |-> {}, unexpected_keys |-> {}, copied |-> {}]
    ELSE LET outcome == [i \in 1..Len(model_state) |-> CopyOutcome(model_state[i], state_dict)]
             outcomes == Range(outcome)
             model_keys == ModelKeys(model_state)
         IN [raised |-> IF "index_error" \in outcomes THEN "IndexError"
                        ELSE IF "not_tensor" \in outcomes \/ "size_mismatch" \in outcomes
                        THEN "RuntimeError" ELSE "",
             size_mismatch |-> "size_mismatch" \in outcomes,
             missing_keys |-> {model_state[i].k : i \in
                                 {j \in 1..Len(model_state) : outcome[j] = "absent"}},
             unexpected_keys |-> {state_dict.items[i].k.s : i \in
                                 {j \in 1..Len(state_dict.items) :
                                     state_dict.items[j].k.s \notin model_keys}},
             copied |-> Copied(model_state, state_dict)]

-----------------------------------------------------------------------------
(* the two tiers of load_model, app.py:309-359 *)

ShapeOf(model_state, k) ==
    model_state[CHOOSE i \in 1..Len(model_state) : model_state[i].k = k].shape

\* app.py:336-343, for one item of the checkpoint: the value.shape of a value
\* that is not a tensor raises
FilterRaises(model_state, it) ==
    it.k.s \in ModelKeys(model_state) /\ ~IsTensor(it.v)

\* the filter without its shape test
IsCompatible_KeyOnly(model_state, it) ==
    /\ it.k.s \in ModelKeys(model_state)
    /\ IsTensor(it.v)

\* app.py:337-339
IsCompatible(model_state, it) ==
    /\ it.k.s \in ModelKeys(model_state)
    /\ IsTensor(it.v)
    /\ ShapeOf(model_state, it.k.s) = it.v.shape

compatible_state(model_state, items) ==
    SelectSeq(items, LAMBDA it : IsCompatible(model_state, it))

\* app.py:341 and 343: the text "key: checkpoint <shape> vs model <shape>" or
\* "key: not in model", kept as its parts
IncompatibleEntry(model_state, it) ==
    IF it.k.s \in ModelKeys(model_state)
    THEN [key |-> it.k.s, in_model |-> TRUE, checkpoint |-> it.v.shape,
          model |-> ShapeOf(model_state, it.k.s)]
    ELSE [key |-> it.k.s, in_model |-> FALSE, checkpoint |-> <<>>, model |-> <<>>]

incompatible_keys(model_state, items) ==
    LET skipped == SelectSeq(items, LAMBDA it : ~IsCompatible(model_state, it))
    IN [i \in 1..Len(skipped) |-> IncompatibleEntry(model_state, skipped[i])]

NoDiagnostics ==
    [raised |-> "", tier |-> 0, missing_keys |-> {}, unexpected_keys |-> {},
     incompatible_keys |-> <<>>, copied |-> {}]

\* a bind that always filters, without the attempt of app.py:313
bind_AlwaysFilters(model_state, bound, state_dict) ==
    IF ~bound
    THEN [NoDiagnostics EXCEPT !.raised = "UnboundLocalError", !.tier = 1]
    ELSE IF ~IsDict(state_dict)
    THEN [NoDiagnostics EXCEPT !.raised = "TypeError", !.tier = 2]
    ELSE LET second == load_state_dict(model_state,
                           PyDict(compatible_state(model_state, state_dict.items)))
         IN [raised |-> second.raised, tier |-> 2,
             missing_keys |-> {}, unexpected_keys |-> {},
             incompatible_keys |-> incompatible_keys(model_state, state_dict.items),
             copied |-> second.copied]

\* bound: whether the local variable state_dict was ever assigned
bind(model_state, bound, state_dict) ==
    IF ~bound
    THEN [NoDiagnostics EXCEPT !.raised = "UnboundLocalError", !.tier = 1]
    ELSE LET first == load_state_dict(model_state, state_dict)
         IN IF first.raised = ""
            THEN [raised |-> "", tier |-> 1,
                  missing_keys |-> first.missing_keys,
                  unexpected_keys |-> first.unexpected_keys,
                  incompatible_keys |-> <<>>, copied |-> first.copied]
            ELSE IF first.raised # "RuntimeError" \/ ~first.size_mismatch
            THEN [NoDiagnostics EXCEPT !.raised = first.raised, !.tier = 1]
            ELSE IF \E i \in 1..Len(state_dict.items) :
                        FilterRaises(model_state, state_dict.items[i])
            THEN [NoDiagnostics EXCEPT !.raised = "AttributeError", !.tier = 2]
            ELSE LET second == load_state_dict(model_state,
                                   PyDict(compatible_state(model_state, state_dict.items)))
                 IN [raised |-> second.raised, tier |-> 2,
                     missing_keys |-> {}, unexpected_keys |-> {},
                     incompatible_keys |-> incompatible_keys(model_state, state_dict.items),
                     copied |-> first.copied \cup second.copied]

-----------------------------------------------------------------------------
(* app.py:41-53 and the class names of app.py:267-275 *)

FiveClasses == <<"Cerscospora", "Healthy", "Leaf rust", "Miner", "Phoma">>
TwoClasses == <<"Healthy", "Not Healthy">>

\* MODEL_CONFIGS.keys(), in the order of the dict literal
RegistryOrder ==
    <<"ShuffleNet", "MobileNetV3", "EfficientNet", "CustomCNN1", "CustomCNN2", "CustomCNN3", "BinaryCNN_Light", "BinaryCNN_Deep", "BinaryCNN_Efficient">>

MODEL_CONFIGS ==
    [n \in Range(RegistryOrder) |->
        IF n \in {"BinaryCNN_Light", "BinaryCNN_Deep", "BinaryCNN_Efficient"}
        THEN [num_classes |-> 2, class_names |-> TwoClasses]
        ELSE [num_classes |-> 5, class_names |-> FiveClasses]]

\* app.py:267-275
DetectedClassNames(num_classes) ==
    IF num_classes = 2 THEN TwoClasses
    ELSE IF num_classes = 5 THEN FiveClasses
    ELSE [i \in 1..num_classes |-> "Class_" \o ToString(i - 1)]

\* app.py:295-304: the variant, or the exception the loop over state_dict raises
VariantItemRaises(it) ==
    IF it.k.t # "str" THEN "TypeError"
    ELSE IF Contains(s_classifier_4_weight, it.k.s) /\ ~IsTensor(it.v) THEN "AttributeError"
    ELSE ""

IsSimpleVariantItem(it, num_classes) ==
    /\ VariantItemRaises(it) = ""
    /\ Contains(s_classifier_4_weight, it.k.s)
    /\ Len(it.v.shape) = 2
    /\ it.v.shape[1] = num_classes
    /\ it.v.shape[2] = 128

\* the selector run for every architecture
select_variant_AnyName(model_name, bound, state_dict, num_classes) ==
    IF ~bound THEN [raised |-> "UnboundLocalError", variant |-> "default"]
    ELSE IF ~IsDict(state_dict) THEN [raised |-> "AttributeError", variant |-> "default"]
    ELSE IF \E i \in 1..Len(state_dict.items) : VariantItemRaises(state_dict.items[i]) # ""
    THEN [raised |-> "TypeError", variant |-> "default"]
    ELSE IF \E i \in 1..Len(state_dict.items) : IsSimpleVariantItem(state_dict.items[i], num_classes)
    THEN [raised |-> "", variant |-> "simple"]
    ELSE [raised |-> "", variant |-> "default"]

select_variant(model_name, bound, state_dict, num_classes) ==
    IF model_name # "BinaryCNN_Deep" THEN [raised |-> "", variant |-> "default"]
    ELSE IF ~bound THEN [raised |-> "UnboundLocalError", variant |-> "default"]
    ELSE IF ~IsDict(state_dict) THEN [raised |-> "AttributeError", variant |-> "default"]
    ELSE LET items == state_dict.items
             Stops(i) == VariantItemRaises(items[i]) # "" \/ IsSimpleVariantItem(items[i], num_classes)
         IN IF \E i \in 1..Len(items) : Stops(i)
            THEN LET i == CHOOSE p \in 1..Len(items) : Stops(p) /\ \A q \in 1..(p - 1) : ~Stops(q)
                 IN IF VariantItemRaises(items[i]) # ""
                    THEN [raised |-> VariantItemRaises(items[i]), variant |-> "default"]
                    ELSE [raised |-> "", variant |-> "simple"]
            ELSE [raised |-> "", variant |-> "default"]

-----------------------------------------------------------------------------
(* load_model, one request thread at a time or several interleaved *)

Threads == 1..NumThreads

\* the names callers ask for: two that start-up can find a file for and one
\* for which there is never a file
CallNames == {"CustomCNN1", "BinaryCNN_Deep", "CustomCNN2"}

\* the names the interleaved requests ask for
SharedNames == {"CustomCNN1", "CustomCNN2"}

PathOf(n) == n \o "_best.pth"

NoModel == [id |-> 0, name |-> "", num_classes |-> 0, variant |-> "", copied |-> {}, training |-> TRUE]

\* no descriptor
NoConfig == [num_classes |-> 0, class_names |-> <<>>]

\* predict_image has not run
NoPrediction == [raised |-> "", predicted_class |-> "", all_probabilities |-> {}]

\* database.py:10-36: the polygons of the fields create_field has stored, as
\* lists of [lat, lng] pairs: a rectangle and a triangle
FieldPolygons ==
    (1 :> <<<<0, 0>>, <<0, 4>>, <<2, 4>>, <<2, 0>>>>) @@
    (2 :> <<<<0, 0>>, <<0, 4>>, <<4, 0>>>>)

\* database.py:10-96, app.py:25-31, 899-905: the committed rows of
\* crop_analysis.db when the server starts on a file that holds the fields
\* and no spot, the images under uploads/ as (field id, file name), and
\* writer, the thread whose session holds SQLite's write lock (0 for none)
StoredFields ==
    [fields |-> FieldPolygons, spots |-> {}, analysis_results |-> {},
     uploads |-> {}, writer |-> 0]

\* app.py:873-896: the form of a request that has not been made
NoForm ==
    [field_id |-> 0, parsed |-> FALSE, latitude |-> 0, longitude |-> 0,
     has_image |-> FALSE, filename |-> "",
     image |-> [decodable |-> FALSE, laplacian_variance |-> 0, mean_brightness |-> 0],
     model |-> ""]

\* no row is marked for deletion
NoRows == [fields |-> {}, spots |-> {}, analysis_results |-> {}]

\* a request thread that is in no handler: pc is its place in the handler,
\* session the spot create_spot has added, row the id of the field
\* create_field, or of the analysis create_spot, has added, deleted the ids
\* of the rows session.delete has read and marked so far, pending the ids
\* of the marked spots whose analysis it has yet to read
NoRequest ==
    [pc |-> "idle", form |-> NoForm, polygon_coords |-> <<>>,
     session |-> {}, model_name |-> "", row |-> 0, deleted |-> NoRows,
     pending |-> {}]

\* no request has been made to the field and spot handlers: served counts
\* the requests taken, response is the last answer sent, of the threads
NoRequests ==
    [served |-> 0, response |-> [code |-> 0, error |-> ""],
     of |-> [t \in Threads |-> NoRequest]]

\* the locals of a thread that is not inside load_model and has not yet called it
Idle ==
    [pc |-> "idle", called |-> FALSE, model_name |-> "", model_path |-> "",
     default_num_classes |-> 0, default_class_names |-> <<>>,
     checkpoint |-> None, bound |-> FALSE, state_dict |-> None,
     detected_num_classes |-> ReturnedNone,
     num_classes |-> 0, class_names |-> <<>>, variant |-> "default",
     model |-> NoModel, diag |-> NoDiagnostics,
     outcome |-> "", error |-> "", result |-> NoModel,
     \* bookkeeping of the call, not read by the program
     hit |-> FALSE, cached_at_call |-> FALSE, after_failure |-> FALSE,
     nreads |-> 0, read_failed |-> FALSE, config_at_call |-> NoConfig,
     \* predict_image on the instance load_model returned
     predicted |-> FALSE, prediction |-> NoPrediction]

\* return value
Return(l, model, hit) ==
    [l EXCEPT !.pc = "idle", !.outcome = "returned", !.result = model, !.hit = hit]

\* raise e out of load_model
Raise(l, e) ==
    [l EXCEPT !.pc = "idle", !.outcome = "raised", !.error = e]

\* a request calls load_model(n); each request does so once
LM_Call(t, n) ==
    /\ th[t].pc = "idle"
    /\ ~th[t].called
    /\ th' = [th EXCEPT ![t] =
                [Idle EXCEPT !.pc = "start", !.called = TRUE, !.model_name = n,
                             !.cached_at_call = n \in DOMAIN loaded_models,
                             !.config_at_call =
                                 IF n \in DOMAIN model_configs THEN model_configs[n]
                                 ELSE NoConfig,
                             !.after_failure = n \in failed]]
    /\ UNCHANGED <<loaded_models, model_paths, model_configs, files, reads, failed, arg, ret, scan, db, rq>>

\* a cache hit that first looks whether the artifact is still on disk
LM_CheckCache_Revalidate(t) ==
    LET n == th[t].model_name
        on_disk == n \in DOMAIN model_paths /\ model_paths[n] \in DOMAIN files
    IN /\ th[t].pc = "start"
       /\ th' = [th EXCEPT ![t] =
                   IF n \in DOMAIN loaded_models /\ on_disk
                   THEN Return(th[t], loaded_models[n], TRUE)
                   ELSE [th[t] EXCEPT !.pc = "lookup"]]
       /\ UNCHANGED <<loaded_models, model_paths, model_configs, files, reads, failed, arg, ret, scan, db, rq>>

\* a cache hit that puts the descriptor of the name back to the configured one
LM_CheckCache_ResetsConfig(t) ==
    LET n == th[t].model_name
    IN /\ th[t].pc = "start"
       /\ th' = [th EXCEPT ![t] =
                   IF n \in DOMAIN loaded_models
                   THEN Return(th[t], loaded_models[n], TRUE)
                   ELSE [th[t] EXCEPT !.pc = "lookup"]]
       /\ model_configs' = IF n \in DOMAIN loaded_models
                           THEN (n :> MODEL_CONFIGS[n]) @@ model_configs
                           ELSE model_configs
       /\ UNCHANGED <<loaded_models, model_paths, files, reads, failed, arg, ret, scan, db, rq>>

\* app.py:221-222
LM_CheckCache(t) ==
    /\ th[t].pc = "start"
    /\ th' = [th EXCEPT ![t] =
                IF th[t].model_name \in DOMAIN loaded_models
                THEN Return(th[t], loaded_models[th[t].model_name], TRUE)
                ELSE [th[t] EXCEPT !.pc = "lookup"]]
    /\ UNCHANGED <<loaded_models, model_paths, model_configs, files, reads, failed, arg, ret, scan, db, rq>>

\* a lookup that drops the cached instance of a name whose file is gone
LM_Lookup_Evicts(t) ==
    LET n == th[t].model_name
        found == n \in DOMAIN model_paths /\ model_paths[n] \in DOMAIN files
    IN /\ th[t].pc = "lookup"
       /\ th' = [th EXCEPT ![t] =
                   IF ~found THEN Raise(th[t], "ValueError")
                   ELSE [th[t] EXCEPT
                           !.pc = "read",
                           !.model_path = model_paths[n],
                           !.default_num_classes =
                               IF n \in DOMAIN model_configs THEN model_configs[n].num_classes ELSE 5,
                           !.default_class_names =
                               IF n \in DOMAIN model_configs THEN model_configs[n].class_names ELSE <<>>]]
       /\ failed' = IF found THEN failed ELSE failed \cup {n}
       /\ loaded_models' = IF found THEN loaded_models
                           ELSE [m \in DOMAIN loaded_models \ {n} |-> loaded_models[m]]
       /\ UNCHANGED <<model_paths, model_configs, files, reads, arg, ret, scan, db, rq>>

\* a lookup that falls back to the conventional file name of a name without entry
LM_Lookup_Fallback(t) ==
    LET n == th[t].model_name
    IN /\ th[t].pc = "lookup"
       /\ th' = [th EXCEPT ![t] =
                   [th[t] EXCEPT
                       !.pc = "read",
                       !.model_path = IF n \in DOMAIN model_paths THEN model_paths[n] ELSE PathOf(n),
                       !.default_num_classes =
                           IF n \in DOMAIN model_configs THEN model_configs[n].num_classes ELSE 5,
                       !.default_class_names =
                           IF n \in DOMAIN model_configs THEN model_configs[n].class_names ELSE <<>>]]
       /\ UNCHANGED <<loaded_models, model_paths, model_configs, files, reads, failed, arg, ret, scan, db, rq>>

\* app.py:224-231
LM_Lookup(t) ==
    LET n == th[t].model_name
        found == n \in DOMAIN model_paths /\ model_paths[n] \in DOMAIN files
    IN /\ th[t].pc = "lookup"
       /\ th' = [th EXCEPT ![t] =
                   IF ~found THEN Raise(th[t], "ValueError")
                   ELSE [th[t] EXCEPT
                           !.pc = "read",
                           !.model_path = model_paths[n],
                           !.default_num_classes =
                               IF n \in DOMAIN model_configs THEN model_configs[n].num_classes ELSE 5,
                           !.default_class_names =
                               IF n \in DOMAIN model_configs THEN model_configs[n].class_names ELSE <<>>]]
       /\ failed' = IF found THEN failed ELSE failed \cup {n}
       /\ UNCHANGED <<loaded_models, model_paths, model_configs, files, reads, arg, ret, scan, db, rq>>

\* a read that uses the detected class count without writing it to model_configs
LM_Read_KeepsConfig(t) ==
    LET n == th[t].model_name
        readable == th[t].model_path \in DOMAIN files /\ files[th[t].model_path] # Corrupt
        checkpoint == files[th[t].model_path]
        norm == normalize(checkpoint)
        det == IF norm.raised = "" THEN detect_num_classes_from_checkpoint(norm.state_dict)
               ELSE Raised(norm.raised)
        detected == readable /\ det.raised = "" /\ ~det.none /\ det.n # 0
    IN /\ th[t].pc = "read"
       /\ reads' = [reads EXCEPT ![n] = @ + 1]
       /\ th' = [th EXCEPT ![t] =
                   [th[t] EXCEPT
                       !.pc = "build", !.nreads = @ + 1, !.read_failed = ~readable,
                       !.checkpoint = IF readable THEN checkpoint ELSE None,
                       !.bound = readable,
                       !.state_dict = IF readable THEN norm.state_dict ELSE None,
                       !.detected_num_classes = IF readable THEN det ELSE ReturnedNone,
                       !.num_classes = IF detected THEN det.n ELSE th[t].default_num_classes,
                       !.class_names = IF detected THEN DetectedClassNames(det.n)
                                       ELSE th[t].default_class_names]]
       /\ UNCHANGED <<loaded_models, model_paths, model_configs, files, failed, arg, ret, scan, db, rq>>

\* app.py:235-292: torch.load, the checkpoint formats, the class count and the
\* update of model_configs; every exception ends in the defaults of app.py:289-292
LM_Read(t) ==
    LET n == th[t].model_name
        readable == th[t].model_path \in DOMAIN files /\ files[th[t].model_path] # Corrupt
        checkpoint == files[th[t].model_path]
        norm == normalize(checkpoint)
        det == IF norm.raised = "" THEN detect_num_classes_from_checkpoint(norm.state_dict)
               ELSE Raised(norm.raised)
        detected == readable /\ det.raised = "" /\ ~det.none /\ det.n # 0
    IN /\ th[t].pc = "read"
       /\ reads' = [reads EXCEPT ![n] = @ + 1]
       /\ th' = [th EXCEPT ![t] =
                   [th[t] EXCEPT
                       !.pc = "build", !.nreads = @ + 1, !.read_failed = ~readable,
                       !.checkpoint = IF readable THEN checkpoint ELSE None,
                       !.bound = readable,
                       !.state_dict = IF readable THEN norm.state_dict ELSE None,
                       !.detected_num_classes = IF readable THEN det ELSE ReturnedNone,
                       !.num_classes = IF detected THEN det.n ELSE th[t].default_num_classes,
                       !.class_names = IF detected THEN DetectedClassNames(det.n)
                                       ELSE th[t].default_class_names]]
       /\ model_configs' =
             IF detected
             THEN (n :> [num_classes |-> det.n, class_names |-> DetectedClassNames(det.n)])
                  @@ model_configs
             ELSE model_configs
       /\ UNCHANGED <<loaded_models, model_paths, files, failed, arg, ret, scan, db, rq>>

\* a build that writes the instance to the cache before the bind
LM_Build_StoresFirst(t) ==
    LET n == th[t].model_name
        sel == select_variant(n, th[t].bound, th[t].state_dict, th[t].num_classes)
        res == bind(create_model_architecture(n, th[t].num_classes, sel.variant),
                    th[t].bound, th[t].state_dict)
        raised == IF sel.raised # "" THEN sel.raised
                  ELSE IF create_model_architecture_raises(n) # "" THEN "ValueError"
                  ELSE res.raised
        built == sel.raised = "" /\ create_model_architecture_raises(n) = ""
        model == [id |-> t, name |-> n, num_classes |-> th[t].num_classes,
                  variant |-> sel.variant, copied |-> res.copied, training |-> TRUE]
    IN /\ th[t].pc = "build"
       /\ th' = [th EXCEPT ![t] =
                   IF ~built THEN Raise(th[t], raised)
                   ELSE IF raised # ""
                   THEN Raise([th[t] EXCEPT !.variant = sel.variant, !.model = model, !.diag = res],
                              raised)
                   ELSE [th[t] EXCEPT !.pc = "store", !.variant = sel.variant,
                                      !.model = model, !.diag = res]]
       /\ loaded_models' = IF built THEN (n :> model) @@ loaded_models ELSE loaded_models
       /\ failed' = IF raised = "" THEN failed ELSE failed \cup {n}
       /\ UNCHANGED <<model_paths, model_configs, files, reads, arg, ret, scan, db, rq>>

\* app.py:294-359: the variant, the constructor and the two tiers of the bind;
\* the instance a request builds is named after the request
LM_Build(t) ==
    LET n == th[t].model_name
        sel == select_variant(n, th[t].bound, th[t].state_dict, th[t].num_classes)
        res == bind(create_model_architecture(n, th[t].num_classes, sel.variant),
                    th[t].bound, th[t].state_dict)
        raised == IF sel.raised # "" THEN sel.raised
                  ELSE IF create_model_architecture_raises(n) # "" THEN "ValueError"
                  ELSE res.raised
        built == sel.raised = "" /\ create_model_architecture_raises(n) = ""
        model == [id |-> t, name |-> n, num_classes |-> th[t].num_classes,
                  variant |-> sel.variant, copied |-> res.copied, training |-> TRUE]
    IN /\ th[t].pc = "build"
       /\ th' = [th EXCEPT ![t] =
                   IF ~built THEN Raise(th[t], raised)
                   ELSE IF raised # ""
                   THEN Raise([th[t] EXCEPT !.variant = sel.variant, !.model = model, !.diag = res],
                              raised)
                   ELSE [th[t] EXCEPT !.pc = "store", !.variant = sel.variant,
                                      !.model = model, !.diag = res]]
       /\ failed' = IF raised = "" THEN failed ELSE failed \cup {n}
       /\ UNCHANGED <<loaded_models, model_paths, model_configs, files, reads, arg, ret, scan, db, rq>>

\* a store that leaves out model.eval()
LM_Store_TrainingMode(t) ==
    LET n == th[t].model_name
    IN /\ th[t].pc = "store"
       /\ loaded_models' = (n :> th[t].model) @@ loaded_models
       /\ th' = [th EXCEPT ![t] = Return(th[t], th[t].model, FALSE)]
       /\ UNCHANGED <<model_paths, model_configs, files, reads, failed, arg, ret, scan, db, rq>>

\* app.py:361-366
LM_Store(t) ==
    LET n == th[t].model_name
        model == [th[t].model EXCEPT !.training = FALSE]
    IN /\ th[t].pc = "store"
       /\ loaded_models' = (n :> model) @@ loaded_models
       /\ th' = [th EXCEPT ![t] = Return([th[t] EXCEPT !.model = model], model, FALSE)]
       /\ UNCHANGED <<model_paths, model_configs, files, reads, failed, arg, ret, scan, db, rq>>

\* the artifact file is removed from the models directory while the server runs
RemoveFile(p) ==
    /\ p \in DOMAIN files
    /\ files' = [q \in DOMAIN files \ {p} |-> files[q]]
    /\ UNCHANGED <<loaded_models, model_paths, model_configs, th, reads, failed, arg, ret, scan, db, rq>>

\* app.py:380-416: the handler hands the instance load_model returned to
\* predict_image; the instance gives one probability per class it was built
\* with, c is the index of the largest
PI_Predict(t, c) ==
    LET n == th[t].model_name
        outputs == th[t].result.num_classes
        class_names == model_configs[n].class_names
        raised == IF n \notin DOMAIN model_configs THEN "ValueError"
                  ELSE IF Len(class_names) > outputs \/ c >= Len(class_names) THEN "IndexError"
                  ELSE ""
    IN /\ th[t].pc = "idle"
       /\ th[t].outcome = "returned"
       /\ ~th[t].predicted
       /\ c \in 0..(outputs - 1)
       /\ th' = [th EXCEPT ![t] =
                   [th[t] EXCEPT
                       !.predicted = TRUE,
                       !.prediction =
                           IF raised # "" THEN [NoPrediction EXCEPT !.raised = raised]
                           ELSE [raised |-> "", predicted_class |-> class_names[c + 1],
                                 all_probabilities |-> Range(class_names)]]]
       /\ UNCHANGED <<loaded_models, model_paths, model_configs, files, reads, failed, arg, ret, scan, db, rq>>

-----------------------------------------------------------------------------
(* checkpoints *)

k_classifier_4_weight == Dotted(Child(s_classifier, 4), s_weight)
k_classifier_4_bias == Dotted(Child(s_classifier, 4), s_bias)
k_features_0_weight == Dotted(Child(s_features, 0), s_weight)
k_features_0_bias == Dotted(Child(s_features, 0), s_bias)
k_Head_4_weight == Dotted(Child(s_Head, 4), s_weight)
k_layer4_1_fc_weight == Dotted(Dotted(Child(s_layer4, 1), s_fc), s_weight)
k_head_6_proj == Dotted(Child(s_head, 6), s_proj)
k_module_classifier_4_weight == Dotted(s_module, k_classifier_4_weight)
k_features_1_num_batches_tracked == Dotted(Child(s_features, 1), s_num_batches_tracked)

\* the entries of HeadMap(w) cut out of the state_dict() of a CustomCNN1,
\* which keeps its _metadata
HeadStateDict(w) ==
    StateDict(<<Item(PyStr(k_classifier_4_weight), Tensor(w, 1)),
                Item(PyStr(k_classifier_4_bias), Tensor(<<w[1]>>, 2)),
                Item(PyStr(k_features_0_weight), Tensor(<<32, 3, 3, 3>>, 3))>>,
              TrackedModules(CustomCNN1(w[1])))

\* the parameter map of scenario 1 and, with classifier.4.weight of shape w, of scenario 2
HeadMap(w) ==
    PyDict(<<Item(PyStr(k_classifier_4_weight), Tensor(w, 1)),
             Item(PyStr(k_classifier_4_bias), Tensor(<<w[1]>>, 2)),
             Item(PyStr(k_features_0_weight), Tensor(<<32, 3, 3, 3>>, 3))>>)

Wrapped(key, v) == PyDict(<<Item(PyStr(key), v)>>)

\* torch.save(model.state_dict()) of a freshly trained architecture
ExactMap(model_state) ==
    StateDict([i \in 1..Len(model_state) |->
               Item(PyStr(model_state[i].k), Tensor(model_state[i].shape, 100 + i))],
              TrackedModules(model_state))

\* the same with one entry replaced by v
ExactMapWith(model_state, k, v) ==
    StateDict([i \in 1..Len(model_state) |->
               IF model_state[i].k = k THEN Item(PyStr(k), v)
               ELSE Item(PyStr(model_state[i].k), Tensor(model_state[i].shape, 100 + i))],
              TrackedModules(model_state))

\* the artifacts the one-thread specification loads
SeqArtifacts ==
    {Corrupt,
     PyObject,
     Tensor(<<5, 128>>, 1),
     Wrapped(s_state_dict, HeadMap(<<5, 128>>)),
     Wrapped(s_state_dict, HeadMap(<<5, 256>>)),
     Wrapped(s_model, HeadMap(<<2, 128>>)),
     Wrapped(s_Model_EMA, HeadMap(<<2, 64>>)),
     HeadMap(<<128, 128>>),
     HeadMap(<<1, 128>>),
     HeadMap(<<0, 128>>),
     Wrapped(s_state_dict, PyObject),
     PyDict(<<Item(PyInt(0), Tensor(<<5, 128>>, 1))>>),
     PyDict(<<Item(PyStr(s_epoch), PyNum(3)),
              Item(PyStr(s_model_state_dict), ExactMap(CustomCNN1(5)))>>),
     ExactMap(BinaryCNN_Deep(2, "simple")),
     ExactMap(BinaryCNN_Deep(2, "default")),
     ExactMapWith(CustomCNN1(5), k_features_0_bias, PyNum(0)),
     ExactMapWith(CustomCNN1(5), k_features_0_bias, Tensor(<<64>>, 7)),
     PyDict(<<Item(PyStr(k_features_0_weight), Tensor(<<32, 3, 3, 3>>, 3))>>),
     PyDict(<<Item(PyStr(k_classifier_4_weight), Tensor(<<5, 256>>, 1)),
              Item(PyStr(k_features_0_bias), PyNum(0))>>),
     PyDict(<<Item(PyStr(k_head_6_proj), Tensor(<<2, 128>>, 1)),
              Item(PyStr(k_features_0_weight), Tensor(<<32, 3, 3, 3>>, 3))>>),
     PyDict(<<Item(PyStr(k_Head_4_weight), Tensor(<<2, 128>>, 1)),
              Item(PyStr(k_features_0_weight), Tensor(<<32, 3, 3, 3>>, 3))>>),
     PyDict(<<Item(PyStr(k_module_classifier_4_weight), Tensor(<<2, 128>>, 1)),
              Item(PyStr(k_features_0_weight), Tensor(<<32, 3, 3, 3>>, 3))>>),
     Wrapped(s_state_dict, HeadStateDict(<<5, 128>>)),
     ExactMapWith(CustomCNN1(5), k_features_1_num_batches_tracked, Tensor(<<1>>, 7)),
     ExactMapWith(CustomCNN1(5), k_features_1_num_batches_tracked, Tensor(<<0>>, 7)),
     PyDict(<<Item(PyStr(k_classifier_4_weight), Tensor(<<5, 256>>, 1)),
              Item(PyStr(k_features_1_num_batches_tracked), Tensor(<<2>>, 7))>>)}

\* the artifacts of the interleaved specification
SmallArtifacts == {Corrupt, Wrapped(s_state_dict, HeadMap(<<5, 128>>))}

\* the names start-up can find a file for
Discoverable == {"CustomCNN1", "BinaryCNN_Deep"}

\* the entries of generated parameter maps
GenKeys ==
    {k_classifier_4_weight, k_Head_4_weight, k_layer4_1_fc_weight,
     k_head_6_proj, k_features_0_weight}

GenShapes == {<<2, 128>>, <<100, 8>>, <<101, 8>>, <<5>>}

GenEntries == {Item(PyStr(k), Tensor(w, 1)) : k \in GenKeys, w \in GenShapes}

\* the dicts of at most n items of E: sequences of items with pairwise different keys
ItemSeqs(E, n) ==
    UNION {{q \in [1..m -> E] : \A i, j \in 1..m : i # j => q[i].k # q[j].k} : m \in 0..n}

\* the top-level entries of generated checkpoints
GenWrapperKeys ==
    {PyStr(s_model_state_dict), PyStr(s_state_dict), PyStr(s_model), PyStr(s_Model_EMA),
     PyStr(s_net_State_Dict), PyStr(s_epoch), PyInt(0)}

GenWrapped == {HeadMap(<<5, 128>>), HeadMap(<<2, 128>>), PyNum(7), None}

GenWrapperEntries == {Item(k, v) : k \in GenWrapperKeys, v \in GenWrapped}

-----------------------------------------------------------------------------
(* specifications *)

NotRun == [raised |-> "not run"]

\* scan_for_models has returned
ScanOver == [pth_files |-> <<>>, i |-> 1, unmatched |-> {}]

\* the tables after start-up: scan_for_models bound each file present to its
\* name, and no request has been made
InitTables(present, content) ==
    /\ files = [p \in {PathOf(n) : n \in present} |->
                   content[CHOOSE n \in present : PathOf(n) = p]]
    /\ model_paths = [n \in present |-> PathOf(n)]
    /\ model_configs = [n \in present |-> MODEL_CONFIGS[n]]
    /\ loaded_models = <<>>
    /\ th = [t \in Threads |-> Idle]
    /\ reads = [n \in CallNames \cup present |-> 0]
    /\ failed = {}
    /\ scan = ScanOver
    /\ rq = NoRequests

\* several request threads
Init ==
    /\ db = StoredFields
    /\ \E present \in SUBSET (Discoverable \cap SharedNames) :
           \E content \in [present -> SmallArtifacts] : InitTables(present, content)
    /\ arg = None
    /\ ret = NotRun

Step(t, names) ==
    \/ \E n \in names : LM_Call(t, n)
    \/ LM_CheckCache(t)
    \/ LM_Lookup(t)
    \/ LM_Read(t)
    \/ LM_Build(t)
    \/ LM_Store(t)

Next ==
    \/ \E t \in Threads : Step(t, SharedNames)
    \/ \E p \in DOMAIN files : RemoveFile(p)

Spec == Init /\ [][Next]_vars

\* the steps of a call that has started
Progress(t) ==
    LM_CheckCache(t) \/ LM_Lookup(t) \/ LM_Read(t) \/ LM_Build(t) \/ LM_Store(t)

\* readable artifacts: a wrapped parameter map and a saved tensor
ReadableArtifacts == {Wrapped(s_state_dict, HeadMap(<<5, 128>>)), Tensor(<<5, 128>>, 1)}

\* several request threads over a directory that does not change, each
\* thread scheduled again and again while it is inside load_model
InitLive ==
    /\ db = StoredFields
    /\ \E present \in SUBSET (Discoverable \cap SharedNames) :
           \E content \in [present -> ReadableArtifacts] : InitTables(present, content)
    /\ arg = None
    /\ ret = NotRun

NextLive == \E t \in Threads : Step(t, SharedNames)

SpecLive == InitLive /\ [][NextLive]_vars /\ \A t \in Threads : WF_vars(Progress(t))

\* for CustomCNN1 an artifact that gives a class count other than the
\* configured one and one that gives no class count, for BinaryCNN_Light one
\* whose bind fails after a class count other than the configured one was found
ConfigArtifacts ==
    [CustomCNN1 |->
        {Wrapped(s_model, HeadMap(<<2, 128>>)),
         PyDict(<<Item(PyStr(k_features_0_weight), Tensor(<<32, 3, 3, 3>>, 3))>>)},
     BinaryCNN_Light |->
        {PyDict(<<Item(PyStr(k_classifier_4_weight), Tensor(<<5, 128>>, 1)),
                  Item(PyStr(k_features_0_bias), PyNum(0))>>)}]

\* the requests of the predict, analyze and spot handlers: load_model for
\* one of the names of model_paths, then predict_image with what it returned
ConfigNames == {"CustomCNN1", "BinaryCNN_Light"}

InitConfig ==
    /\ db = StoredFields
    /\ \E content \in [ConfigNames -> UNION Range(ConfigArtifacts)] :
           /\ \A n \in ConfigNames : content[n] \in ConfigArtifacts[n]
           /\ InitTables(ConfigNames, content)
    /\ arg = None
    /\ ret = NotRun

NextConfig ==
    \/ \E t \in Threads : Step(t, DOMAIN model_paths)
    \/ \E t \in Threads : \E c \in {0, th[t].result.num_classes - 1} : PI_Predict(t, c)

SpecConfig == InitConfig /\ [][NextConfig]_vars

\* create_model_architecture called directly, beside a request that reaches
\* it through load_model: registered names, a registered name in lower case
\* and names of no architecture
CreateNames == Range(RegistryOrder) \cup {"customcnn1", "ResNet50", "BinaryCNN"}

CreateClasses == {2, 5}

CreateVariants == {"default", "simple"}

CreateCalls ==
    [model_name : CreateNames, num_classes : CreateClasses, variant : CreateVariants]

\* what the call gives: the exception, or an instance (its state_dict() for
\* the architectures whose layers are written out)
CreateStep ==
    /\ ret = NotRun
    /\ ret' = IF create_model_architecture_raises(arg.model_name) # ""
              THEN [raised |-> create_model_architecture_raises(arg.model_name),
                    built |-> FALSE, state |-> <<>>]
              ELSE [raised |-> "", built |-> TRUE,
                    state |-> IF arg.model_name \in Modelled
                              THEN create_model_architecture(arg.model_name, arg.num_classes,
                                                             arg.variant)
                              ELSE <<>>]
    /\ UNCHANGED <<loaded_models, model_paths, model_configs, files, th, reads, failed, arg, scan, db, rq>>

InitCreate ==
    /\ db = StoredFields
    /\ arg \in CreateCalls
    /\ ret = NotRun
    /\ \E n \in Discoverable : InitTables({n}, (n :> Wrapped(s_model, HeadMap(<<2, 128>>))))

NextCreate ==
    \/ CreateStep
    \/ Step(1, DOMAIN model_paths)

SpecCreate == InitCreate /\ [][NextCreate]_vars

-----------------------------------------------------------------------------
(* create_spot *)

\* the requests the field and spot handlers take in all
MaxRequests == 2

\* utils.py:26-37: the edges from the i-th on; p1 is the vertex before p2.
\* xinters is (y - p1y) * (p2x - p1x) / (p2y - p1y) + p1x, and x <= xinters
\* is compared here without the division
RECURSIVE point_in_polygon_from(_, _, _, _, _)
point_in_polygon_from(x, y, polygon_coords, i, inside) ==
    LET n == Len(polygon_coords)
        p1x == polygon_coords[((i - 1) % n) + 1][1]
        p1y == polygon_coords[((i - 1) % n) + 1][2]
        p2x == polygon_coords[(i % n) + 1][1]
        p2y == polygon_coords[(i % n) + 1][2]
        min_y == IF p1y < p2y THEN p1y ELSE p2y
        max_y == IF p1y > p2y THEN p1y ELSE p2y
        max_x == IF p1x > p2x THEN p1x ELSE p2x
        below_xinters ==
            IF p2y > p1y THEN (x - p1x) * (p2y - p1y) <= (y - p1y) * (p2x - p1x)
            ELSE (x - p1x) * (p2y - p1y) >= (y - p1y) * (p2x - p1x)
        toggles == /\ y > min_y
                   /\ y <= max_y
                   /\ x <= max_x
                   /\ (p1x = p2x \/ below_xinters)
    IN IF i > n THEN inside
       ELSE point_in_polygon_from(x, y, polygon_coords, i + 1,
                                  IF toggles THEN ~inside ELSE inside)

\* utils.py:7-39: x, y = lng, lat, while the first number of a vertex is
\* taken for its x and the second for its y
point_in_polygon(lat, lng, polygon_coords) ==
    IF Len(polygon_coords) < 3 THEN FALSE
    ELSE point_in_polygon_from(lng, lat, polygon_coords, 1, FALSE)

\* utils.py:55-69: the error of one member of coordinates, "" for none
CoordError(coord) ==
    IF coord.kind # "list" \/ Len(coord.items) # 2
    THEN "Each coordinate must be [lat, lng]"
    ELSE IF coord.items[1].kind # "num" \/ coord.items[2].kind # "num"
    THEN "Latitude and longitude must be numbers"
    ELSE IF coord.items[1].id < -90 \/ coord.items[1].id > 90
    THEN "Latitude must be between -90 and 90"
    ELSE IF coord.items[2].id < -180 \/ coord.items[2].id > 180
    THEN "Longitude must be between -180 and 180"
    ELSE ""

\* utils.py:41-72: coordinates is a list as request.get_json() gives it; the
\* first member with an error names it (error "" stands for None)
validate_polygon(coordinates) ==
    LET bad == {i \in 1..Len(coordinates.items) : CoordError(coordinates.items[i]) # ""}
    IN IF coordinates.items = <<>>
       THEN [is_valid |-> FALSE, error |-> "Polygon coordinates cannot be empty"]
       ELSE IF Len(coordinates.items) < 3
       THEN [is_valid |-> FALSE, error |-> "Polygon must have at least 3 points"]
       ELSE IF bad = {} THEN [is_valid |-> TRUE, error |-> ""]
       ELSE [is_valid |-> FALSE,
             error |-> CoordError(coordinates.items[CHOOSE i \in bad : \A j \in bad : i <= j])]

\* app.py:794, database.py:36-38: json.dumps of a list of pairs of numbers
\* and json.loads of it again: the list of [lat, lng] pairs
get_polygon_coords(coordinates) ==
    [i \in 1..Len(coordinates.items) |->
        <<coordinates.items[i].items[1].id, coordinates.items[i].items[2].id>>]

\* the JSON list of a list of [lat, lng] pairs of integers
JsonPolygon(polygon_coords) ==
    PyList([i \in 1..Len(polygon_coords) |->
               PyList(<<PyNum(polygon_coords[i][1]), PyNum(polygon_coords[i][2])>>)])

\* utils.py:117-118: the float (a + b) / 2 of two integers, as whole + half / 2
Midpoint(a, b) == [whole |-> (a + b) \div 2, half |-> (a + b) % 2]

\* utils.py:96-119: None for an empty list, else the bounding box and its centre
calculate_field_bounds(polygon_coords) ==
    LET lats == {polygon_coords[i][1] : i \in DOMAIN polygon_coords}
        lngs == {polygon_coords[i][2] : i \in DOMAIN polygon_coords}
        min_lat == CHOOSE v \in lats : \A w \in lats : v <= w
        max_lat == CHOOSE v \in lats : \A w \in lats : v >= w
        min_lng == CHOOSE v \in lngs : \A w \in lngs : v <= w
        max_lng == CHOOSE v \in lngs : \A w \in lngs : v >= w
    IN IF polygon_coords = <<>> THEN None
       ELSE [min_lat |-> min_lat, max_lat |-> max_lat,
             min_lng |-> min_lng, max_lng |-> max_lng,
             center_lat |-> Midpoint(min_lat, max_lat),
             center_lng |-> Midpoint(min_lng, max_lng)]

\* app.py:419-472: the measures of a decoded image, or the defaults of the
\* except branch, which have neither laplacian_variance nor mean_brightness
assess_image_quality(image) ==
    IF image.decodable
    THEN [is_blurry |-> image.laplacian_variance < 100,
          is_underexposed |-> image.mean_brightness < 50,
          is_overexposed |-> image.mean_brightness > 200,
          measured |-> TRUE,
          laplacian_variance |-> image.laplacian_variance,
          mean_brightness |-> image.mean_brightness]
    ELSE [is_blurry |-> FALSE, is_underexposed |-> FALSE, is_overexposed |-> FALSE,
          measured |-> FALSE, laplacian_variance |-> 0, mean_brightness |-> 0]

\* app.py:929-935
is_unusable(quality_assessment) ==
    LET laplacian_var == IF quality_assessment.measured
                         THEN quality_assessment.laplacian_variance ELSE 1000
        mean_brightness == IF quality_assessment.measured
                           THEN quality_assessment.mean_brightness ELSE 128
    IN \/ quality_assessment.is_blurry /\ laplacian_var < 50
       \/ mean_brightness < 20
       \/ mean_brightness > 240

\* app.py:959
preferred_models == <<"CustomCNN1", "CustomCNN2", "CustomCNN3", "EfficientNet", "MobileNetV3">>

\* app.py:952-966: the names model_name can get: the selected model when it
\* is registered, else the first preferred one that is, else the first key
\* of model_paths, which is any of them since the order of the scan is not kept
ModelCandidates(selected_model) ==
    LET found == {i \in DOMAIN preferred_models : preferred_models[i] \in DOMAIN model_paths}
    IN IF selected_model # "" /\ selected_model \in DOMAIN model_paths THEN {selected_model}
       ELSE IF found # {}
       THEN {preferred_models[CHOOSE i \in found : \A j \in found : i <= j]}
       ELSE DOMAIN model_paths

\* app.py:481-492: the health label of map_prediction_to_schema
class_to_label(predicted_class) ==
    IF predicted_class = "Healthy" THEN "healthy"
    ELSE IF predicted_class = "Not Healthy" THEN "mildly_stressed"
    ELSE IF predicted_class \in {"Cerscospora", "Leaf rust", "Phoma"} THEN "diseased"
    ELSE IF predicted_class = "Miner" THEN "pest_damage"
    ELSE "unknown"

\* the images uploaded: a sharp one, one too blurred, one too dark, and
\* bytes that are no image
Images ==
    {[decodable |-> TRUE, laplacian_variance |-> 400, mean_brightness |-> 128],
     [decodable |-> TRUE, laplacian_variance |-> 30, mean_brightness |-> 128],
     [decodable |-> TRUE, laplacian_variance |-> 400, mean_brightness |-> 10],
     [decodable |-> FALSE, laplacian_variance |-> 0, mean_brightness |-> 0]}

\* the points sent: inside both fields, inside the rectangle's longitudes
\* but not its latitudes, the reverse, and outside both
Points == {<<1, 1>>, <<3, 1>>, <<1, 3>>, <<3, 3>>}

\* a spot inside field 1 with a sharp image and no model selected
BaseForm ==
    [field_id |-> 1, parsed |-> TRUE, latitude |-> 1, longitude |-> 1,
     has_image |-> TRUE, filename |-> "leaf.jpg",
     image |-> [decodable |-> TRUE, laplacian_variance |-> 400, mean_brightness |-> 128],
     model |-> ""]

\* the forms posted: BaseForm and what differs from it in the point, in the
\* field (one that is not stored at the start), in the coordinates' syntax,
\* in the image, or in the model selected
SpotForms ==
    {[BaseForm EXCEPT !.latitude = p[1], !.longitude = p[2]] : p \in Points}
    \cup {[BaseForm EXCEPT !.field_id = 3], [BaseForm EXCEPT !.parsed = FALSE],
          [BaseForm EXCEPT !.has_image = FALSE], [BaseForm EXCEPT !.filename = ""]}
    \cup {[BaseForm EXCEPT !.image = i] : i \in Images}
    \cup {[BaseForm EXCEPT !.model = "BinaryCNN_Deep"]}

\* the bodies posted to create_field: a valid one, and ones without a name,
\* with an empty or a short polygon, with a vertex that is no list, with a
\* latitude that is no number, and with a latitude or a longitude out of range
FieldData ==
    {[name |-> TRUE, polygon_coordinates |-> JsonPolygon(FieldPolygons[1])],
     [name |-> FALSE, polygon_coordinates |-> JsonPolygon(FieldPolygons[1])],
     [name |-> TRUE, polygon_coordinates |-> PyList(<<>>)],
     [name |-> TRUE, polygon_coordinates |-> JsonPolygon(<<<<0, 0>>, <<0, 4>>>>)],
     [name |-> TRUE, polygon_coordinates |->
          PyList(<<PyList(<<PyNum(0), PyNum(0)>>), PyList(<<PyNum(0), PyNum(4)>>), None>>)],
     [name |-> TRUE, polygon_coordinates |->
          PyList(<<PyList(<<PyNum(0), PyNum(0)>>), PyList(<<PyNum(0), PyNum(4)>>),
                   PyList(<<None, PyNum(0)>>)>>)],
     [name |-> TRUE, polygon_coordinates |-> JsonPolygon(<<<<0, 0>>, <<0, 4>>, <<91, 0>>>>)],
     [name |-> TRUE, polygon_coordinates |-> JsonPolygon(<<<<0, 0>>, <<0, 181>>, <<2, 0>>>>)]}

\* the largest id of the rows, 0 when there are none
MaxId(ids) == IF ids = {} THEN 0 ELSE CHOOSE i \in ids : \A j \in ids : i >= j

\* database.py:15, 46, 82: id is an INTEGER PRIMARY KEY, so a new row gets
\* the largest id of its table plus one
NextId(ids) == MaxId(ids) + 1

\* the server hands a request to a free thread; which one makes no
\* difference to the handler, so it is the first
FreeThread(t) ==
    /\ rq.of[t].pc = "idle"
    /\ \A u \in Threads : u < t => rq.of[u].pc # "idle"

\* thread t takes a request and is at pc with the locals given
Take(t, pc, locals) ==
    [rq EXCEPT !.served = @ + 1, !.of[t] = [locals EXCEPT !.pc = pc]]

\* thread t returns status code with body {'error': error} (or the rows)
Respond(t, code, error) ==
    [rq EXCEPT !.of[t] = NoRequest, !.response = [code |-> code, error |-> error]]

\* thread t takes a request and returns at once
Refuse(t, code, error) ==
    [rq EXCEPT !.served = @ + 1, !.response = [code |-> code, error |-> error]]

\* app.py:983-998, 1005-1007, database.py:83: thread t adds the analysis
\* row and commits the session: the flushed spot and its analysis are
\* written in one transaction, which gives the write lock back. spot_id is
\* unique: when an analysis row with the spot's id is stored already, the
\* INSERT raises IntegrityError, which is answered after the rollback
Commit(t, spot, status, health_label, model_used) ==
    LET id == NextId({a.id : a \in db.analysis_results})
    IN IF \E a \in db.analysis_results : a.spot_id = spot.id
       THEN /\ db' = [db EXCEPT !.writer = 0]
            /\ rq' = Respond(t, 500, "Analysis failed: IntegrityError")
       ELSE /\ db' = [db EXCEPT !.writer = 0,
                                !.spots = @ \cup {spot},
                                !.analysis_results =
                                    @ \cup {[id |-> id, spot_id |-> spot.id,
                                             model_version |-> model_used,
                                             status |-> status,
                                             health_label |-> health_label]}]
            /\ rq' = [rq EXCEPT !.of[t].pc = "to_dict", !.of[t].row = id]

\* app.py:777-798: create_field on a free thread, up to the commit. The
\* INSERT needs the write lock: while another session holds it the commit
\* waits, and raises OperationalError (answered at 800-802) when it has
\* waited too long
create_field(t, data) ==
    LET checked == validate_polygon(data.polygon_coordinates)
        id == NextId(DOMAIN db.fields)
    IN /\ FreeThread(t)
       /\ rq.served < MaxRequests
       /\ IF ~data.name \/ data.polygon_coordinates.items = <<>>
          THEN /\ rq' = Refuse(t, 400, "Name and polygon_coordinates required")
               /\ UNCHANGED db
          ELSE IF ~checked.is_valid
          THEN /\ rq' = Refuse(t, 400, checked.error)
               /\ UNCHANGED db
          ELSE IF db.writer # 0
          THEN /\ rq' = Refuse(t, 500, "OperationalError")
               /\ UNCHANGED db
          ELSE /\ db' = [db EXCEPT !.fields =
                            @ @@ (id :> get_polygon_coords(data.polygon_coordinates))]
               /\ rq' = Take(t, "field_to_dict", [NoRequest EXCEPT !.row = id])
       /\ UNCHANGED <<loaded_models, model_paths, model_configs, files, th, reads, failed, arg, ret, scan>>

\* app.py:799-802, database.py:27-31: field.to_dict() reads self.id, which
\* the commit has expired: a SELECT of the field row by its id;
\* ObjectDeletedError when it is no longer stored is answered at 800-802
CF_Return(t) ==
    /\ rq.of[t].pc = "field_to_dict"
    /\ IF rq.of[t].row \in DOMAIN db.fields
       THEN rq' = [rq EXCEPT !.of[t].pc = "field_spots"]
       ELSE rq' = Respond(t, 500, "ObjectDeletedError")
    /\ UNCHANGED <<loaded_models, model_paths, model_configs, files, th, reads, failed, arg, ret, scan, db>>

\* app.py:799, database.py:32: len(self.spots) is a second SELECT, of the
\* spot rows whose field_id is the field's; it gives a list whether or not
\* the field is still stored, and the handler answers 201
CF_Spots(t) ==
    /\ rq.of[t].pc = "field_spots"
    /\ rq' = Respond(t, 201, "")
    /\ UNCHANGED <<loaded_models, model_paths, model_configs, files, th, reads, failed, arg, ret, scan, db>>

\* app.py:852-856: delete_field on a free thread: get_or_404 reads the
\* field row; NotFound is answered at 860-862. No transaction is open after
\* the SELECT, so other requests commit before the next one
delete_field(t, field_id) ==
    /\ FreeThread(t)
    /\ rq.served < MaxRequests
    /\ IF field_id \notin DOMAIN db.fields
       THEN rq' = Refuse(t, 500, "NotFound")
       ELSE rq' = Take(t, "cascade_spots",
                       [NoRequest EXCEPT !.deleted.fields = {field_id}])
    /\ UNCHANGED <<loaded_models, model_paths, model_configs, files, th, reads, failed, arg, ret, scan, db>>

\* app.py:1024-1028: delete_spot on a free thread: get_or_404 reads the
\* spot row; NotFound is answered at 1032-1034
delete_spot(t, spot_id) ==
    /\ FreeThread(t)
    /\ rq.served < MaxRequests
    /\ IF spot_id \notin {s.id : s \in db.spots}
       THEN rq' = Refuse(t, 500, "NotFound")
       ELSE rq' = Take(t, "cascade_analysis",
                       [NoRequest EXCEPT !.deleted.spots = {spot_id},
                                         !.pending = {spot_id}])
    /\ UNCHANGED <<loaded_models, model_paths, model_configs, files, th, reads, failed, arg, ret, scan, db>>

\* app.py:857, database.py:23: session.delete(field) follows the cascade of
\* Field.spots: a SELECT of the spot rows whose field_id is the field's, as
\* they are stored now; with no spot there is nothing more to read
CascadeSpots(t) ==
    LET field_id == CHOOSE f \in rq.of[t].deleted.fields : TRUE
        spots == {s.id : s \in {r \in db.spots : r.field_id = field_id}}
    IN /\ rq.of[t].pc = "cascade_spots"
       /\ rq' = [rq EXCEPT !.of[t].pc = IF spots = {} THEN "delete" ELSE "cascade_analysis",
                           !.of[t].deleted.spots = spots,
                           !.of[t].pending = spots]
       /\ UNCHANGED <<loaded_models, model_paths, model_configs, files, th, reads, failed, arg, ret, scan, db>>

\* app.py:857, 1029, database.py:57: session.delete follows the cascade of
\* Spot.analysis, one SELECT for a marked spot (in the order of their ids,
\* which is the order the spots were read in): the analysis row whose
\* spot_id is the spot's, as it is stored now, or none
CascadeAnalysis(t) ==
    LET pending == rq.of[t].pending
        spot_id == CHOOSE i \in pending : \A j \in pending : i <= j
        read == {a.id : a \in {r \in db.analysis_results : r.spot_id = spot_id}}
    IN /\ rq.of[t].pc = "cascade_analysis"
       /\ rq' = [rq EXCEPT !.of[t].pc = IF pending = {spot_id} THEN "delete" ELSE @,
                           !.of[t].deleted.analysis_results = @ \cup read,
                           !.of[t].pending = @ \ {spot_id}]
       /\ UNCHANGED <<loaded_models, model_paths, model_configs, files, th, reads, failed, arg, ret, scan, db>>

\* app.py:858-862, 1030-1034: the commit of delete_field and of delete_spot.
\* It waits for the write lock (OperationalError when it has waited too
\* long) and deletes the marked rows by their ids; a row that is no longer
\* stored only makes SQLAlchemy warn, and the answer is 200 all the same
DeleteCommit(t) ==
    /\ rq.of[t].pc = "delete"
    /\ IF db.writer # 0
       THEN /\ rq' = Respond(t, 500, "OperationalError")
            /\ UNCHANGED db
       ELSE /\ db' = [db EXCEPT
                         !.fields = [f \in DOMAIN @ \ rq.of[t].deleted.fields |-> @[f]],
                         !.spots = {s \in @ : s.id \notin rq.of[t].deleted.spots},
                         !.analysis_results =
                             {a \in @ : a.id \notin rq.of[t].deleted.analysis_results}]
            /\ rq' = Respond(t, 200, "")
    /\ UNCHANGED <<loaded_models, model_paths, model_configs, files, th, reads, failed, arg, ret, scan>>

\* app.py:869-909: a free thread takes a POST to /api/fields/<id>/spots:
\* the field is read, the form checked and the image saved under uploads/;
\* every return here leaves the session without a row, and NotFound from
\* get_or_404 is answered at 1009-1011
CS_Request(t, form) ==
    LET answer(code, error) == rq' = Refuse(t, code, error) /\ UNCHANGED db
    IN /\ FreeThread(t)
       /\ rq.served < MaxRequests
       /\ IF form.field_id \notin DOMAIN db.fields THEN answer(500, "NotFound")
          ELSE IF ~form.parsed THEN answer(400, "Invalid coordinates")
          ELSE IF ~point_in_polygon(form.latitude, form.longitude, db.fields[form.field_id])
          THEN answer(400, "Spot must be inside field polygon")
          ELSE IF ~form.has_image THEN answer(400, "No image provided")
          ELSE IF form.filename = "" THEN answer(400, "No image selected")
          ELSE /\ rq' = Take(t, "flush",
                             [NoRequest EXCEPT !.form = form,
                                               !.polygon_coords = db.fields[form.field_id]])
               /\ db' = [db EXCEPT !.uploads = @ \cup {<<form.field_id, form.filename>>}]
       /\ UNCHANGED <<loaded_models, model_paths, model_configs, files, th, reads, failed, arg, ret, scan>>

\* app.py:912-922: the spot is added and flushed, which takes the write lock
\* (or raises OperationalError after waiting for it, answered at 1009-1011)
\* and gives the spot its id; the row is in the session, not in the table,
\* until the commit
CS_Flush(t) ==
    LET form == rq.of[t].form
        spot == [id |-> NextId({s.id : s \in db.spots}), field_id |-> form.field_id,
                 latitude |-> form.latitude, longitude |-> form.longitude,
                 image_filename |-> form.filename]
    IN /\ rq.of[t].pc = "flush"
       /\ IF db.writer # 0
          THEN /\ rq' = Respond(t, 500, "OperationalError")
               /\ UNCHANGED db
          ELSE /\ rq' = [rq EXCEPT !.of[t].pc = "assess", !.of[t].session = {spot}]
               /\ db' = [db EXCEPT !.writer = t]
       /\ UNCHANGED <<loaded_models, model_paths, model_configs, files, th, reads, failed, arg, ret, scan>>

\* app.py:925-969, 983-998, 1005-1007: the image is measured. An unusable
\* one is stored without a prediction and both rows are committed; else the
\* handler chooses the model and goes on to load_model, and with no model
\* to choose the ValueError is answered after the rollback
CS_Assess(t) ==
    LET form == rq.of[t].form
        spot == CHOOSE r \in rq.of[t].session : TRUE
        quality_assessment == assess_image_quality(form.image)
    IN /\ rq.of[t].pc = "assess"
       /\ IF is_unusable(quality_assessment)
          THEN /\ Commit(t, spot, "unusable_image", "unknown", "none")
               /\ UNCHANGED th
          ELSE IF ModelCandidates(form.model) = {}
          THEN /\ rq' = Respond(t, 500, "Analysis failed: No models available")
               /\ db' = [db EXCEPT !.writer = 0]
               /\ UNCHANGED th
          ELSE /\ \E model_name \in ModelCandidates(form.model) :
                      rq' = [rq EXCEPT !.of[t].pc = "load_model",
                                       !.of[t].model_name = model_name]
               /\ th' = [th EXCEPT ![t] = Idle]
               /\ UNCHANGED db
       /\ UNCHANGED <<loaded_models, model_paths, model_configs, files, reads, failed, arg, ret, scan>>

\* app.py:971-998, 1005-1007: load_model has returned or raised;
\* preprocess_image (369-378) raises for bytes that are no image,
\* predict_image has run otherwise; an exception is answered after the
\* rollback, else the analysis is stored and both rows are committed. Either
\* way the write lock is free and the locals of load_model and predict_image
\* are gone
CS_Respond(t) ==
    LET l == th[t]
        spot == CHOOSE s \in rq.of[t].session : TRUE
        raised == IF l.outcome = "raised" THEN l.error
                  ELSE IF ~rq.of[t].form.image.decodable THEN "ValueError"
                  ELSE l.prediction.raised
    IN /\ rq.of[t].pc = "load_model"
       /\ l.pc = "idle"
       /\ l.called
       /\ l.outcome = "raised" \/ ~rq.of[t].form.image.decodable \/ l.predicted
       /\ IF raised # ""
          THEN /\ rq' = Respond(t, 500, "Analysis failed: " \o raised)
               /\ db' = [db EXCEPT !.writer = 0]
          ELSE Commit(t, spot, "ok", class_to_label(l.prediction.predicted_class),
                      rq.of[t].model_name)
       /\ th' = [th EXCEPT ![t] = Idle]
       /\ UNCHANGED <<loaded_models, model_paths, model_configs, files, reads, failed, arg, ret, scan>>

\* app.py:1001, 1005-1007, database.py:61-62: spot.to_dict() reads self.id,
\* which the commit has expired: a SELECT of the spot row by its id;
\* ObjectDeletedError when it is no longer stored is answered at 1005-1007
CS_Return(t) ==
    LET spot == CHOOSE s \in rq.of[t].session : TRUE
    IN /\ rq.of[t].pc = "to_dict"
       /\ IF spot.id \in {s.id : s \in db.spots}
          THEN rq' = [rq EXCEPT !.of[t].pc = "spot_analysis"]
          ELSE rq' = Respond(t, 500, "Analysis failed: ObjectDeletedError")
       /\ UNCHANGED <<loaded_models, model_paths, model_configs, files, th, reads, failed, arg, ret, scan, db>>

\* app.py:1001-1003, database.py:72-73: self.analysis is a second SELECT,
\* of the analysis row whose spot_id is the spot's, whether or not the spot
\* is still stored. When it finds the row the handler has added, the row
\* is loaded into the handler's analysis, analysis.to_dict() at 1002 reads
\* nothing more and the answer is 201; when it finds none, or the row of
\* another request, analysis.to_dict() has its own row to read
CS_Analysis(t) ==
    LET spot == CHOOSE s \in rq.of[t].session : TRUE
        found == {a.id : a \in {r \in db.analysis_results : r.spot_id = spot.id}}
    IN /\ rq.of[t].pc = "spot_analysis"
       /\ IF rq.of[t].row \in found
          THEN rq' = Respond(t, 201, "")
          ELSE rq' = [rq EXCEPT !.of[t].pc = "analysis_to_dict"]
       /\ UNCHANGED <<loaded_models, model_paths, model_configs, files, th, reads, failed, arg, ret, scan, db>>

\* app.py:1002-1007, database.py:98-100: analysis.to_dict() reads the
\* expired analysis row by its id; ObjectDeletedError when it is no longer
\* stored is answered at 1005-1007
CS_AnalysisRow(t) ==
    /\ rq.of[t].pc = "analysis_to_dict"
    /\ IF rq.of[t].row \in {a.id : a \in db.analysis_results}
       THEN rq' = Respond(t, 201, "")
       ELSE rq' = Respond(t, 500, "Analysis failed: ObjectDeletedError")
    /\ UNCHANGED <<loaded_models, model_paths, model_configs, files, th, reads, failed, arg, ret, scan, db>>

\* the artifacts in the models directory: none, a readable one of a
\* preferred architecture, or an unreadable one of an architecture that is
\* not preferred
SpotTables ==
    {<<{}, <<>>>>,
     <<{"CustomCNN1"}, ("CustomCNN1" :> Wrapped(s_model, HeadMap(<<2, 128>>)))>>,
     <<{"BinaryCNN_Deep"}, ("BinaryCNN_Deep" :> Corrupt)>>}

\* the server starts on a database file that holds the two fields and a
\* spot of field 1 with its analysis, which an earlier run of create_spot
\* has committed
InitSpot ==
    /\ \E tables \in SpotTables : InitTables(tables[1], tables[2])
    /\ db = [StoredFields EXCEPT
                 !.spots = {[id |-> 1, field_id |-> 1, latitude |-> 1, longitude |-> 1,
                             image_filename |-> "leaf.jpg"]},
                 !.analysis_results = {[id |-> 1, spot_id |-> 1, model_version |-> "none",
                                        status |-> "unusable_image",
                                        health_label |-> "unknown"]},
                 !.uploads = {<<1, "leaf.jpg">>}]
    /\ arg = None
    /\ ret = NotRun

\* the server's threads serve the requests to the field and spot handlers
\* side by side; create_spot calls load_model for the name it chose and
\* predict_image for an image it decoded
NextSpot ==
    \/ \E t \in Threads : \E data \in FieldData : create_field(t, data)
    \/ \E t \in Threads : CF_Return(t)
    \/ \E t \in Threads : CF_Spots(t)
    \/ \E t \in Threads :
           \E field_id \in DOMAIN db.fields \cup {NextId(DOMAIN db.fields)} :
               delete_field(t, field_id)
    \/ \E t \in Threads :
           \E spot_id \in {s.id : s \in db.spots} \cup {NextId({s.id : s \in db.spots})} :
               delete_spot(t, spot_id)
    \/ \E t \in Threads : CascadeSpots(t)
    \/ \E t \in Threads : CascadeAnalysis(t)
    \/ \E t \in Threads : DeleteCommit(t)
    \/ \E t \in Threads : \E form \in SpotForms : CS_Request(t, form)
    \/ \E t \in Threads : CS_Flush(t)
    \/ \E t \in Threads : CS_Assess(t)
    \/ \E t \in Threads : rq.of[t].pc = "load_model" /\ Step(t, {rq.of[t].model_name})
    \/ \E t \in Threads :
           /\ rq.of[t].pc = "load_model"
           /\ rq.of[t].form.image.decodable
           /\ \E c \in {0, th[t].result.num_classes - 1} : PI_Predict(t, c)
    \/ \E t \in Threads : CS_Respond(t)
    \/ \E t \in Threads : CS_Return(t)
    \/ \E t \in Threads : CS_Analysis(t)
    \/ \E t \in Threads : CS_AnalysisRow(t)

SpecSpot == InitSpot /\ [][NextSpot]_vars

\* one request thread, one artifact out of many
InitSeq ==
    /\ db = StoredFields
    /\ \E n \in Discoverable : \E a \in SeqArtifacts : InitTables({n}, (n :> a))
    /\ arg = None
    /\ ret = NotRun

NextSeq ==
    \/ Step(1, CallNames)
    \/ \E p \in DOMAIN files : RemoveFile(p)

SpecSeq == InitSeq /\ [][NextSeq]_vars

\* detect_num_classes_from_checkpoint on generated parameter maps
InitFn ==
    /\ db = StoredFields
    /\ ret = NotRun
    /\ InitTables({}, <<>>)

DetectStep ==
    /\ ret = NotRun
    /\ ret' = detect_num_classes_from_checkpoint(arg)
    /\ UNCHANGED <<loaded_models, model_paths, model_configs, files, th, reads, failed, arg, scan, db, rq>>

InitDetect ==
    /\ \E q \in ItemSeqs(GenEntries, MaxEntries) : arg = PyDict(q)
    /\ InitFn

SpecDetect == InitDetect /\ [][DetectStep]_vars

\* the checkpoint formats on generated checkpoints
NormalizeStep ==
    /\ ret = NotRun
    /\ ret' = normalize(arg)
    /\ UNCHANGED <<loaded_models, model_paths, model_configs, files, th, reads, failed, arg, scan, db, rq>>

InitNormalize ==
    /\ \/ arg \in {Tensor(<<5, 128>>, 1), PyObject}
       \/ \E q \in ItemSeqs(GenWrapperEntries, MaxWrapperKeys) : arg = PyDict(q)
    /\ InitFn

SpecNormalize == InitNormalize /\ [][NormalizeStep]_vars

-----------------------------------------------------------------------------
(* class-count detection: properties *)

\* the items of the parameter map under test that are candidates, by position
ArgIsCandidate(i) == IsCandidate(arg.items[i])
ArgIndex(i) == _extract_layer_index(arg.items[i].k.s)
ArgOutputDim(i) == arg.items[i].v.shape[1]
ArgQualifies(i) == ArgIsCandidate(i) /\ ArgOutputDim(i) \in 2..100

\* no qualifying candidate has a higher index, none with the same index comes earlier
ArgBestQualifying(i) ==
    /\ ArgQualifies(i)
    /\ \A j \in 1..Len(arg.items) :
           ArgQualifies(j) =>
               \/ ArgIndex(j) < ArgIndex(i)
               \/ ArgIndex(j) = ArgIndex(i) /\ j >= i

\* C8: when some candidate has output_dim in [2,100], detection returns the
\* output_dim of the qualifying candidate with the highest layer index, the
\* first encountered among equals; a qualifying candidate of lower index is
\* never preferred.
C8_HighestQualifying ==
    (ret # NotRun /\ \E i \in 1..Len(arg.items) : ArgQualifies(i)) =>
        \E i \in 1..Len(arg.items) :
            ArgBestQualifying(i) /\ ret = Returned(ArgOutputDim(i))

\* a lower-index qualifying candidate comes first in the map, with another
\* width, and the later, higher-index one is returned
C8_Witness ==
    /\ ret # NotRun
    /\ \E i, j \in 1..Len(arg.items) :
           /\ i < j
           /\ ArgQualifies(i) /\ ArgQualifies(j)
           /\ ArgIndex(i) < ArgIndex(j)
           /\ ArgOutputDim(i) # ArgOutputDim(j)
           /\ ret = Returned(ArgOutputDim(j))

-----------------------------------------------------------------------------
(* the cache: properties of the interleaved requests *)

\* request t is back from load_model
Finished(t) == th[t].called /\ th[t].pc = "idle"

\* the artifact of name n can be found and read from disk
OnDisk(n) == n \in DOMAIN model_paths /\ model_paths[n] \in DOMAIN files

\* C1: requests that called load_model for the same name while it was not
\* cached all get the same instance, and the artifact was read and loaded
\* exactly once for them (single flight).
C1_SingleFlight ==
    \A t1, t2 \in Threads :
        ( /\ t1 # t2
          /\ Finished(t1) /\ Finished(t2)
          /\ th[t1].model_name = th[t2].model_name
          /\ ~th[t1].cached_at_call /\ ~th[t2].cached_at_call
          /\ th[t1].outcome = "returned" /\ th[t2].outcome = "returned" )
        => /\ th[t1].result.id = th[t2].result.id
           /\ reads[th[t1].model_name] = 1

\* C2: a call made when the name is already cached returns the cached
\* instance in its one step, reads no artifact and changes none of
\* loaded_models, model_paths, model_configs, whether or not the file is
\* still on disk.
C2_CacheHitIsPureRead ==
    [][\A t \in Threads :
          (th[t].pc = "start" /\ th[t].cached_at_call /\ th'[t] # th[t])
          => /\ th'[t].pc = "idle"
             /\ th'[t].outcome = "returned"
             /\ th'[t].result = loaded_models[th[t].model_name]
             /\ th'[t].nreads = 0
             /\ reads' = reads
             /\ UNCHANGED <<loaded_models, model_paths, model_configs>>]_vars

\* a request was served from the cache after the artifact had been removed
C2_Witness ==
    \E t \in Threads :
        /\ Finished(t)
        /\ th[t].cached_at_call
        /\ th[t].hit
        /\ th[t].outcome = "returned"
        /\ th[t].result = loaded_models[th[t].model_name]
        /\ ~OnDisk(th[t].model_name)

\* C3: the step that ends a call with an error leaves loaded_models as it
\* was, and the failed call read the artifact at most once; a call made
\* after a failure on the same name that is not served from the cache reads
\* the artifact again, unless the file is not there.
C3_FailureNotCached ==
    /\ [][\A t \in Threads :
             (th[t].pc # "idle" /\ th'[t].pc = "idle" /\ th'[t].outcome = "raised")
             => loaded_models' = loaded_models /\ th'[t].nreads <= 1]_vars
    /\ [](\A t \in Threads :
             (Finished(t) /\ th[t].after_failure /\ ~th[t].hit)
             => th[t].nreads = 1 \/ ~OnDisk(th[t].model_name))

\* a call after a failed one read the artifact again and failed again, and
\* the name is still not cached
C3_Witness ==
    \E t \in Threads :
        /\ Finished(t)
        /\ th[t].after_failure
        /\ th[t].outcome = "raised"
        /\ th[t].nreads = 1
        /\ reads[th[t].model_name] = 2
        /\ th[t].model_name \notin DOMAIN loaded_models

\* C4: for a name without entry in model_paths, the cache check and the
\* lookup read no artifact and change none of the three tables, and the
\* lookup raises ValueError.
C4_NotFound ==
    [][\A t \in Threads :
          (th[t].model_name \notin DOMAIN model_paths /\ th'[t] # th[t] /\ th[t].pc # "idle")
          => /\ reads' = reads
             /\ UNCHANGED <<loaded_models, model_paths, model_configs>>
             /\ th[t].pc \in {"start", "lookup"}
             /\ th[t].pc = "start" => th'[t].pc = "lookup"
             /\ th[t].pc = "lookup" =>
                   /\ th'[t].pc = "idle"
                   /\ th'[t].outcome = "raised"
                   /\ th'[t].error = "ValueError"
                   /\ th'[t].nreads = 0]_vars

\* a request for a name without entry has ended with ValueError
C4_Witness ==
    \E t \in Threads :
        /\ Finished(t)
        /\ th[t].model_name \notin DOMAIN model_paths
        /\ th[t].model_name \notin DOMAIN loaded_models
        /\ th[t].outcome = "raised"
        /\ th[t].error = "ValueError"
        /\ th[t].nreads = 0

-----------------------------------------------------------------------------
(* one request: properties of the load sequence *)

\* the architecture instance request t built, as its state_dict()
BuiltState(t) ==
    create_model_architecture(th[t].model_name, th[t].model.num_classes, th[t].model.variant)

\* request t reached the bind with an instance
BindRan(t) == th[t].model.id # 0 /\ th[t].diag.tier # 0

\* a mapping from string keys to tensors
IsParameterMap(v) ==
    /\ IsDict(v)
    /\ \A i \in 1..Len(v.items) : v.items[i].k.t = "str" /\ IsTensor(v.items[i].v)

\* the positions of the map of request t whose key the instance has with another shape
ShapeMismatched(t) ==
    {i \in 1..Len(th[t].state_dict.items) :
        \E j \in 1..Len(BuiltState(t)) :
            /\ BuiltState(t)[j].k = th[t].state_dict.items[i].k.s
            /\ BuiltState(t)[j].shape # th[t].state_dict.items[i].v.shape}

\* the parameters of the instance the map has with the same shape, with the tensor of the map
SameKeyAndShape(t) ==
    {<<j, th[t].state_dict.items[i].v.id>> :
        <<j, i>> \in {q \in (1..Len(BuiltState(t))) \X (1..Len(th[t].state_dict.items)) :
                        /\ BuiltState(t)[q[1]].k = th[t].state_dict.items[q[2]].k.s
                        /\ BuiltState(t)[q[1]].shape = th[t].state_dict.items[q[2]].v.shape}}

\* C5: for a name in model_paths whose file was found, load_model raises if
\* and only if torch.load failed.
C5_FailsIffUnreadable ==
    \A t \in Threads :
        (Finished(t) /\ th[t].model_name \in DOMAIN model_paths /\ th[t].model_path # "")
        => (th[t].outcome = "raised" <=> th[t].read_failed)

\* C6: when the parameter map has a key of the instance with another shape,
\* the bind succeeds, the instance holds the tensors of exactly the keys
\* present in both with equal shapes, and incompatible_keys has, for every
\* mismatched key, an entry with the shape in the checkpoint and the shape
\* in the instance.
C6_PartialLoad ==
    \A t \in Threads :
        (BindRan(t) /\ IsParameterMap(th[t].state_dict) /\ ShapeMismatched(t) # {})
        => /\ th[t].diag.raised = ""
           /\ th[t].outcome # "raised"
           /\ th[t].model.copied = SameKeyAndShape(t)
           /\ \A i \in ShapeMismatched(t) :
                  \E e \in Range(th[t].diag.incompatible_keys) :
                      /\ e.key = th[t].state_dict.items[i].k.s
                      /\ e.in_model
                      /\ e.checkpoint = th[t].state_dict.items[i].v.shape
                      /\ e.model = ShapeOf(BuiltState(t), e.key)

\* scenario 2: classifier.4.weight of shape [5,256] against [5,128] is
\* skipped and reported, classifier.4.bias is bound, and the instance is cached
C6_Witness ==
    \E t \in Threads :
        /\ Finished(t)
        /\ th[t].outcome = "returned"
        /\ th[t].model_name = "CustomCNN1"
        /\ th[t].diag.tier = 2
        /\ \E e \in Range(th[t].diag.incompatible_keys) :
               /\ e.key = k_classifier_4_weight
               /\ e.checkpoint = <<5, 256>>
               /\ e.model = <<5, 128>>
        /\ \E c \in th[t].model.copied : BuiltState(t)[c[1]].k = k_classifier_4_bias
        /\ loaded_models["CustomCNN1"] = th[t].result

\* the map has exactly the keys of the instance, each with its shape
ExactMatch(t) ==
    /\ IsParameterMap(th[t].state_dict)
    /\ {th[t].state_dict.items[i].k.s : i \in 1..Len(th[t].state_dict.items)}
           = ModelKeys(BuiltState(t))
    /\ ShapeMismatched(t) = {}

\* C7: a parameter map with exactly the keys and shapes of the instance is
\* bound by the first attempt alone, with no missing, unexpected or
\* incompatible key.
C7_ExactMatch ==
    \A t \in Threads :
        (BindRan(t) /\ ExactMatch(t))
        => /\ th[t].diag.raised = ""
           /\ th[t].diag.tier = 1
           /\ th[t].diag.missing_keys = {}
           /\ th[t].diag.unexpected_keys = {}
           /\ th[t].diag.incompatible_keys = <<>>

\* the state_dict of a trained BinaryCNN_Deep was bound to a fresh instance,
\* all of its parameters taken from the checkpoint
C7_Witness ==
    \E t \in Threads :
        /\ th[t].pc = "store"
        /\ th[t].model_name = "BinaryCNN_Deep"
        /\ ExactMatch(t)
        /\ th[t].diag.tier = 1
        /\ Cardinality(th[t].model.copied) = Len(BuiltState(t))

\* the candidates of the map of request t, in the order of the checkpoint
Candidates(t) == CandidateLayers(th[t].state_dict.items)

\* C9: when there are candidates and none has output_dim in [2,100], the
\* instance is built with the output_dim of the candidate of highest layer
\* index, the first encountered among equals.
C9_FallbackIsBuilt ==
    \A t \in Threads :
        ( /\ th[t].model.id # 0
          /\ IsParameterMap(th[t].state_dict)
          /\ Candidates(t) # <<>>
          /\ \A i \in 1..Len(Candidates(t)) : ~Reasonable(Candidates(t)[i]) )
        => \E i \in 1..Len(Candidates(t)) :
               /\ \A j \in 1..Len(Candidates(t)) :
                      \/ Candidates(t)[j].index < Candidates(t)[i].index
                      \/ Candidates(t)[j].index = Candidates(t)[i].index /\ j >= i
               /\ th[t].model.num_classes = Candidates(t)[i].output_dim

\* C10: the checkpoint formats never raise; a dict with a known wrapper key
\* gives the value under model_state_dict, else state_dict, else model, and
\* anything that is not a dict is returned as it is.
C10_NormalizeTotal ==
    ret # NotRun =>
        /\ ret.raised = ""
        /\ (IsDict(arg) /\ HasKey(arg, PyStr(s_model_state_dict)))
               => ret.state_dict = Get(arg, PyStr(s_model_state_dict))
        /\ (IsDict(arg) /\ ~HasKey(arg, PyStr(s_model_state_dict))
                /\ HasKey(arg, PyStr(s_state_dict)))
               => ret.state_dict = Get(arg, PyStr(s_state_dict))
        /\ (IsDict(arg) /\ ~HasKey(arg, PyStr(s_model_state_dict))
                /\ ~HasKey(arg, PyStr(s_state_dict)) /\ HasKey(arg, PyStr(s_model)))
               => ret.state_dict = Get(arg, PyStr(s_model))
        /\ ~IsDict(arg) => ret.state_dict = arg

-----------------------------------------------------------------------------
(* scan_for_models, app.py:73-142 *)

\* the characters of a registered name
Chars(name) ==
    CASE name = "ShuffleNet" -> <<"S","h","u","f","f","l","e","N","e","t">>
      [] name = "MobileNetV3" -> <<"M","o","b","i","l","e","N","e","t","V","3">>
      [] name = "EfficientNet" -> <<"E","f","f","i","c","i","e","n","t","N","e","t">>
      [] name = "CustomCNN1" -> <<"C","u","s","t","o","m","C","N","N","1">>
      [] name = "CustomCNN2" -> <<"C","u","s","t","o","m","C","N","N","2">>
      [] name = "CustomCNN3" -> <<"C","u","s","t","o","m","C","N","N","3">>
      [] name = "BinaryCNN_Light" -> <<"B","i","n","a","r","y","C","N","N","_","L","i","g","h","t">>
      [] name = "BinaryCNN_Deep" -> <<"B","i","n","a","r","y","C","N","N","_","D","e","e","p">>
      [] name = "BinaryCNN_Efficient" -> <<"B","i","n","a","r","y","C","N","N","_","E","f","f","i","c","i","e","n","t">>

s_best == <<"_","b","e","s","t">>
s_checkpoint == <<"_","c","h","e","c","k","p","o","i","n","t">>
s_pth == <<".","p","t","h">>
s_cnn == <<"c","n","n">>
s_underscore == <<"_">>

\* s.replace(old, ''): every occurrence of old, from the left, is removed
RECURSIVE replace(_, _)
replace(s, old) ==
    IF Len(s) < Len(old) THEN s
    ELSE IF SubSeq(s, 1, Len(old)) = old THEN replace(SubSeq(s, Len(old) + 1, Len(s)), old)
    ELSE <<s[1]>> \o replace(SubSeq(s, 2, Len(s)), old)

\* Path.stem: the file name without its last suffix
stem(name) ==
    LET dots == {p \in 2..Len(name) : name[p] = "."}
    IN IF dots = {} \/ name[Len(name)] = "." THEN name
       ELSE SubSeq(name, 1, (CHOOSE p \in dots : \A r \in dots : r <= p) - 1)

\* app.py:106
derived_name(pth_file) == replace(replace(stem(pth_file), s_best), s_checkpoint)

\* the normalized form that also matches a name when digits are dropped
normalized_DropsDigits(config_name) ==
    SelectSeq(replace(replace(lower(Chars(config_name)), s_cnn), s_underscore),
              LAMBDA c : ~IsDigit(c))

\* app.py:115: config_name.lower().replace('cnn', '').replace('_', '')
normalized(config_name) ==
    replace(replace(lower(Chars(config_name)), s_cnn), s_underscore)

\* app.py:113-115
matches(config_name, model_name) ==
    \/ Contains(lower(Chars(config_name)), lower(model_name))
    \/ Contains(lower(model_name), lower(Chars(config_name)))
    \/ Contains(normalized(config_name), replace(lower(model_name), s_underscore))

\* the positions in the registry at which the loop of app.py:111-126 binds
\* and breaks: the name matches and has no path yet
Binds(k, model_name) ==
    matches(RegistryOrder[k], model_name) /\ RegistryOrder[k] \notin DOMAIN model_paths

\* the body of the loop of app.py:105-129 with the test of app.py:117 left out
ScanFile_Rebinds ==
    /\ scan.i <= Len(scan.pth_files)
    /\ LET pth_file == scan.pth_files[scan.i]
           model_name == derived_name(pth_file)
           hits == {k \in 1..Len(RegistryOrder) : matches(RegistryOrder[k], model_name)}
       IN IF hits # {}
          THEN LET config_name == RegistryOrder[CHOOSE k \in hits : \A h \in hits : k <= h]
               IN /\ model_paths' = (config_name :> pth_file) @@ model_paths
                  /\ model_configs' = (config_name :> MODEL_CONFIGS[config_name]) @@ model_configs
                  /\ scan' = [scan EXCEPT !.i = @ + 1]
          ELSE /\ scan' = [scan EXCEPT !.i = @ + 1, !.unmatched = @ \cup {pth_file}]
               /\ UNCHANGED <<model_paths, model_configs>>
    /\ UNCHANGED <<loaded_models, files, th, reads, failed, arg, ret, db, rq>>

\* the body of the loop of app.py:105-129 with app.py:119-123 left out: the
\* path is bound and no descriptor is created
ScanFile_NoDescriptor ==
    /\ scan.i <= Len(scan.pth_files)
    /\ LET pth_file == scan.pth_files[scan.i]
           model_name == derived_name(pth_file)
           hits == {k \in 1..Len(RegistryOrder) : Binds(k, model_name)}
       IN IF hits # {}
          THEN LET config_name == RegistryOrder[CHOOSE k \in hits : \A h \in hits : k <= h]
               IN /\ model_paths' = (config_name :> pth_file) @@ model_paths
                  /\ scan' = [scan EXCEPT !.i = @ + 1]
                  /\ UNCHANGED model_configs
          ELSE /\ scan' = [scan EXCEPT !.i = @ + 1, !.unmatched = @ \cup {pth_file}]
               /\ UNCHANGED <<model_paths, model_configs>>
    /\ UNCHANGED <<loaded_models, files, th, reads, failed, arg, ret, db, rq>>

\* app.py:105-129: one file of pth_files
ScanFile ==
    /\ scan.i <= Len(scan.pth_files)
    /\ LET pth_file == scan.pth_files[scan.i]
           model_name == derived_name(pth_file)
           hits == {k \in 1..Len(RegistryOrder) : Binds(k, model_name)}
       IN IF hits # {}
          THEN LET config_name == RegistryOrder[CHOOSE k \in hits : \A h \in hits : k <= h]
               IN /\ model_paths' = (config_name :> pth_file) @@ model_paths
                  /\ model_configs' = (config_name :> MODEL_CONFIGS[config_name]) @@ model_configs
                  /\ scan' = [scan EXCEPT !.i = @ + 1]
          ELSE /\ scan' = [scan EXCEPT !.i = @ + 1, !.unmatched = @ \cup {pth_file}]
               /\ UNCHANGED <<model_paths, model_configs>>
    /\ UNCHANGED <<loaded_models, files, th, reads, failed, arg, ret, db, rq>>

\* file names
BestFile(name) == Chars(name) \o s_best \o s_pth
CheckpointFile(name) == Chars(name) \o s_checkpoint \o s_pth

f_unknown_model_v3 == <<"u","n","k","n","o","w","n","_","m","o","d","e","l","_","v","3",".","p","t","h">>
f_resnet50_best == <<"r","e","s","n","e","t","5","0","_","b","e","s","t",".","p","t","h">>
f_custom_best == <<"c","u","s","t","o","m","_","b","e","s","t",".","p","t","h">>
f_custom_checkpoint == <<"c","u","s","t","o","m","_","c","h","e","c","k","p","o","i","n","t",".","p","t","h">>
f_cnn == <<"c","n","n",".","p","t","h">>
f_binary_light == <<"b","i","n","a","r","y","_","l","i","g","h","t","_","b","e","s","t",".","p","t","h">>

\* files no registered name matches
UnknownFiles == {f_unknown_model_v3, f_resnet50_best}

\* the directories with one file
SingleFiles ==
    {BestFile(RegistryOrder[k]) : k \in 1..Len(RegistryOrder)}
    \cup {CheckpointFile(RegistryOrder[k]) : k \in 1..Len(RegistryOrder)}
    \cup UnknownFiles \cup {f_custom_best, f_cnn, f_binary_light}

\* the files of directories with several files
SeveralFiles ==
    {BestFile("CustomCNN1"), CheckpointFile("CustomCNN1"), BestFile("CustomCNN2"),
     BestFile("BinaryCNN_Light"), f_custom_best, f_custom_checkpoint, f_cnn,
     f_unknown_model_v3}

\* the lists glob can return for a directory of at most n of the files of F
Listings(F, n) ==
    UNION {{q \in [1..m -> F] : \A i, j \in 1..m : i # j => q[i] # q[j]} : m \in 0..n}

\* module start-up up to app.py:104: the tables are empty and glob has listed the directory
InitScan ==
    /\ \E q \in [1..1 -> SingleFiles] \cup Listings(SeveralFiles, MaxFiles) :
           /\ scan = [pth_files |-> q, i |-> 1, unmatched |-> {}]
           /\ files = [p \in {q[i] : i \in 1..Len(q)} |-> Corrupt]
    /\ model_paths = <<>>
    /\ model_configs = <<>>
    /\ loaded_models = <<>>
    /\ th = [t \in Threads |-> Idle]
    /\ reads = [n \in CallNames |-> 0]
    /\ failed = {}
    /\ arg = None
    /\ ret = NotRun
    /\ db = StoredFields
    /\ rq = NoRequests

\* the names requested once the server runs: two registered names and a name
\* of no architecture
StartupCalls == {"CustomCNN1", "BinaryCNN_Light", "ResNet50"}

\* module start-up followed by requests: every file listed holds a readable
\* checkpoint, scan_for_models runs to its end (app.py:146) and only then
\* does app.run serve a request (app.py:1082)
InitStartup ==
    /\ \E q \in [1..1 -> SingleFiles] \cup Listings(SeveralFiles, MaxFiles) :
           /\ scan = [pth_files |-> q, i |-> 1, unmatched |-> {}]
           /\ files = [p \in {q[i] : i \in 1..Len(q)} |-> Wrapped(s_model, HeadMap(<<2, 128>>))]
    /\ model_paths = <<>>
    /\ model_configs = <<>>
    /\ loaded_models = <<>>
    /\ th = [t \in Threads |-> Idle]
    /\ reads = [n \in StartupCalls |-> 0]
    /\ failed = {}
    /\ arg = None
    /\ ret = NotRun
    /\ db = StoredFields
    /\ rq = NoRequests

NextStartup ==
    \/ ScanFile
    \/ scan.i > Len(scan.pth_files) /\ Step(1, StartupCalls)

SpecStartup == InitStartup /\ [][NextStartup]_vars

SpecScan == InitScan /\ [][ScanFile]_vars

-----------------------------------------------------------------------------
(* _extract_layer_index on generated keys *)

s_fc1_weight == <<"f","c","1",".","w","e","i","g","h","t">>

\* the characters of generated keys
KeyAlphabet == {"f", ".", "1", "4"}

\* the keys of the documentation and of the architectures, and every string
\* of at most MaxKeyLen characters of KeyAlphabet
IndexKeys ==
    {s_classifier_4_weight, s_fc1_weight, k_layer4_1_fc_weight, k_head_6_proj,
     k_features_0_weight, Dotted(s_fc, s_weight), s_weight}
    \cup UNION {[1..m -> KeyAlphabet] : m \in 0..MaxKeyLen}

IndexStep ==
    /\ ret = NotRun
    /\ ret' = Returned(_extract_layer_index(arg.s))
    /\ UNCHANGED <<loaded_models, model_paths, model_configs, files, th, reads, failed, arg, scan, db, rq>>

InitIndex ==
    /\ \E key \in IndexKeys : arg = PyStr(key)
    /\ InitFn

SpecIndex == InitIndex /\ [][IndexStep]_vars

\* key.split('.')
RECURSIVE Split(_)
Split(key) ==
    IF \E p \in 1..Len(key) : key[p] = "."
    THEN LET p == CHOOSE q \in 1..Len(key) : key[q] = "." /\ \A r \in 1..(q - 1) : key[r] # "."
         IN <<SubSeq(key, 1, p - 1)>> \o Split(SubSeq(key, p + 1, Len(key)))
    ELSE <<key>>

\* a non-empty string of decimal digits
IsNumber(tok) == Len(tok) > 0 /\ \A p \in 1..Len(tok) : IsDigit(tok[p])

\* the positions of the dot-separated components of the key that are numbers
\* and have a component on either side
DottedNumbers(key) ==
    {c \in 2..(Len(Split(key)) - 1) : IsNumber(Split(key)[c])}

\* the maximal runs of digits of the key, as pairs of first and last position
DigitRuns(key) ==
    {r \in (1..Len(key)) \X (1..Len(key)) :
        /\ r[1] <= r[2]
        /\ \A p \in r[1]..r[2] : IsDigit(key[p])
        /\ r[1] = 1 \/ ~IsDigit(key[r[1] - 1])
        /\ r[2] = Len(key) \/ ~IsDigit(key[r[2] + 1])}

\* C20 as stated: the index is the value of the first run of digits of the
\* key, wherever it stands, and 0 for a key without digits.
C20_FirstIntegerToken ==
    ret # NotRun =>
        IF DigitRuns(arg.s) = {} THEN ret.n = 0
        ELSE \E r \in DigitRuns(arg.s) :
                 /\ \A q \in DigitRuns(arg.s) : r[1] <= q[1]
                 /\ ret.n = ParseInt(SubSeq(arg.s, r[1], r[2]))

\* C20 amended: the index is the value of the first component of the key that
\* is a number and stands between two dots, and 0 for a key without such a
\* component (also when digits stand elsewhere, as in fc1.weight).
C20_FirstDottedNumber ==
    ret # NotRun =>
        /\ ret.raised = "" /\ ~ret.none
        /\ IF DottedNumbers(arg.s) = {} THEN ret.n = 0
           ELSE \E c \in DottedNumbers(arg.s) :
                    /\ \A d \in DottedNumbers(arg.s) : c <= d
                    /\ ret.n = ParseInt(Split(arg.s)[c])

\* layer4.1.fc.weight gave 1: the digit of layer4 is passed over
C20_Witness ==
    /\ ret # NotRun
    /\ arg.s = k_layer4_1_fc_weight
    /\ ret.n = 1

-----------------------------------------------------------------------------
(* scan_for_models: properties *)

\* every file of pth_files has been processed
ScanDone == scan.i > Len(scan.pth_files)

\* the registered names that match the name derived from the file
MatchingNames(pth_file) ==
    {k \in 1..Len(RegistryOrder) : matches(RegistryOrder[k], derived_name(pth_file))}

\* C11: over a directory holding only N_best.pth or N_checkpoint.pth, for a
\* registered name N, the scan leaves exactly the binding of N to that file,
\* with the registered descriptor of N; over a directory holding only a file
\* no name matches it leaves no binding and reports the file.
C11_ExactBinding ==
    (ScanDone /\ Len(scan.pth_files) = 1) =>
        LET pth_file == scan.pth_files[1]
        IN /\ \A k \in 1..Len(RegistryOrder) :
                  LET N == RegistryOrder[k]
                  IN pth_file \in {BestFile(N), CheckpointFile(N)} =>
                         /\ model_paths = (N :> pth_file)
                         /\ model_configs = (N :> MODEL_CONFIGS[N])
                         /\ scan.unmatched = {}
           /\ pth_file \in UnknownFiles =>
                  /\ model_paths = <<>>
                  /\ model_configs = <<>>
                  /\ scan.unmatched = {pth_file}

\* BinaryCNN_Efficient_checkpoint.pth was bound to BinaryCNN_Efficient alone,
\* though EfficientNet stands earlier in the registry
C11_Witness ==
    /\ ScanDone
    /\ scan.pth_files = <<CheckpointFile("BinaryCNN_Efficient")>>
    /\ DOMAIN model_paths = {"BinaryCNN_Efficient"}
    /\ model_paths["BinaryCNN_Efficient"] = CheckpointFile("BinaryCNN_Efficient")

\* C12: a step of the scan leaves every name that has a path with the same
\* path and the same descriptor.
C12_NeverRebound ==
    [][\A n \in DOMAIN model_paths :
          /\ n \in DOMAIN model_paths'
          /\ model_paths'[n] = model_paths[n]
          /\ model_configs'[n] = model_configs[n]]_vars

\* a second file matching CustomCNN1 was processed and CustomCNN1 still has
\* the path of the first
C12_Witness ==
    /\ ScanDone
    /\ Len(scan.pth_files) = 2
    /\ MatchingNames(scan.pth_files[1]) = MatchingNames(scan.pth_files[2])
    /\ scan.pth_files[1] # scan.pth_files[2]
    /\ "CustomCNN1" \in DOMAIN model_paths
    /\ model_paths["CustomCNN1"] = scan.pth_files[1]

\* C18: a file is bound to the first registered name that matches its derived
\* name if that name has no path yet, and to no name at all if that name has
\* a path or if no name matches.
C18_FirstMatchOnly ==
    [][(scan.i <= Len(scan.pth_files) /\ scan'.i = scan.i + 1) =>
          LET pth_file == scan.pth_files[scan.i]
              hits == MatchingNames(pth_file)
              first == RegistryOrder[CHOOSE k \in hits : \A h \in hits : k <= h]
          IN IF hits # {} /\ first \notin DOMAIN model_paths
             THEN /\ model_paths' = (first :> pth_file) @@ model_paths
                  /\ model_configs' = (first :> MODEL_CONFIGS[first]) @@ model_configs
             ELSE UNCHANGED <<model_paths, model_configs>>]_vars

-----------------------------------------------------------------------------
(* the cache: residency and identity of the instances *)

\* C13: no step removes a key from loaded_models.
C13_NeverEvicts ==
    [][\A n \in DOMAIN loaded_models : n \in DOMAIN loaded_models']_vars

\* a name is still cached after its file was removed and a call that had
\* missed the cache before the store ended with the not-found error
C13_Witness ==
    \E t \in Threads :
        /\ Finished(t)
        /\ ~th[t].cached_at_call
        /\ th[t].outcome = "raised"
        /\ th[t].error = "ValueError"
        /\ th[t].model_name \in DOMAIN loaded_models
        /\ ~OnDisk(th[t].model_name)

\* C14: no step replaces the instance cached under a name by another
\* instance, and a call that returns hands out the instance then cached
\* under its name.
C14_OneInstancePerName ==
    [][/\ \A n \in DOMAIN loaded_models :
              n \in DOMAIN loaded_models' => loaded_models'[n].id = loaded_models[n].id
       /\ \A t \in Threads :
              (th[t].pc # "idle" /\ th'[t].pc = "idle" /\ th'[t].outcome = "returned")
              => /\ th'[t].model_name \in DOMAIN loaded_models'
                 /\ th'[t].result.id = loaded_models'[th'[t].model_name].id]_vars

-----------------------------------------------------------------------------
(* one request: scenario 1, the frame of the bind, the candidates *)

Scenario1 == Wrapped(s_state_dict, HeadMap(<<5, 128>>))

\* the artifact of scenario 1 with an inner map that kept the _metadata of
\* the state_dict() it was cut from
Scenario1WithMetadata == Wrapped(s_state_dict, HeadStateDict(<<5, 128>>))

\* request t loads CustomCNN1 from the artifact of scenario 1 and has bound
LoadsScenario1(t) ==
    /\ BindRan(t)
    /\ th[t].model_name = "CustomCNN1"
    /\ th[t].checkpoint \in {Scenario1, Scenario1WithMetadata}

\* the num_batches_tracked keys of the instance
TrackedKeys(model_state) ==
    {model_state[i].k : i \in {j \in 1..Len(model_state) : model_state[j].shape = <<>>}}

\* C15 as stated: scenario 1 unwraps to the inner map, detects 5 classes,
\* builds CustomCNN1 with 5 classes and binds with empty missing_keys,
\* unexpected_keys and incompatible_keys.
C15_Scenario1EmptyDiagnostics ==
    \A t \in Threads :
        LoadsScenario1(t) =>
            /\ th[t].state_dict.items = HeadMap(<<5, 128>>).items
            /\ th[t].detected_num_classes = Returned(5)
            /\ th[t].model.num_classes = 5
            /\ BuiltState(t) = CustomCNN1(5)
            /\ th[t].diag.raised = ""
            /\ th[t].diag.missing_keys = {}
            /\ th[t].diag.unexpected_keys = {}
            /\ th[t].diag.incompatible_keys = <<>>

\* C15 amended: as above, but missing_keys holds every key of the instance
\* other than the three of the map and, when the inner map's _metadata has
\* no entry for the BatchNorm modules of the instance (a plain dict), other
\* than the num_batches_tracked buffers; the bind is the first attempt
\* alone and unexpected_keys and incompatible_keys are empty.
C15_Scenario1MissingKeys ==
    \A t \in Threads :
        LoadsScenario1(t) =>
            /\ th[t].state_dict.items = HeadMap(<<5, 128>>).items
            /\ th[t].detected_num_classes = Returned(5)
            /\ th[t].model.num_classes = 5
            /\ BuiltState(t) = CustomCNN1(5)
            /\ th[t].diag.raised = ""
            /\ th[t].diag.tier = 1
            /\ th[t].diag.missing_keys =
                   (ModelKeys(CustomCNN1(5))
                    \ {k_classifier_4_weight, k_classifier_4_bias, k_features_0_weight})
                   \ (IF th[t].checkpoint = Scenario1 THEN TrackedKeys(CustomCNN1(5)) ELSE {})
            /\ th[t].diag.unexpected_keys = {}
            /\ th[t].diag.incompatible_keys = <<>>
            /\ Cardinality(th[t].model.copied) = 3

\* scenario 1 has been loaded, returned and cached
C15_Witness ==
    \E t \in Threads :
        /\ LoadsScenario1(t)
        /\ Finished(t)
        /\ th[t].outcome = "returned"
        /\ th[t].result.num_classes = 5
        /\ "CustomCNN1" \in DOMAIN loaded_models
        /\ Dotted(Child(s_classifier, 1), s_weight) \in th[t].diag.missing_keys
        /\ k_features_1_num_batches_tracked \notin th[t].diag.missing_keys

\* C16: after a bind that succeeded, in either tier, every parameter of the
\* instance that holds a tensor of the checkpoint has its key in the map with
\* exactly its shape, and holds the tensor under that key; all others keep
\* what the constructor gave them.
C16_UnboundKeepInit ==
    \A t \in Threads :
        (BindRan(t) /\ th[t].diag.raised = "" /\ IsDict(th[t].state_dict))
        => \A c \in th[t].model.copied :
               \E i \in 1..Len(th[t].state_dict.items) :
                   LET it == th[t].state_dict.items[i]
                   IN /\ it.k = PyStr(BuiltState(t)[c[1]].k)
                      /\ IsTensor(it.v)
                      /\ it.v.shape = BuiltState(t)[c[1]].shape
                      /\ it.v.id = c[2]

\* scenario 2 was bound in the second tier: classifier.4.weight ([5,256]
\* against [5,128]) and the absent classifier.1.weight keep the constructor's
\* value, features.0.weight holds the tensor of the map
C16_Witness ==
    \E t \in Threads :
        /\ th[t].pc = "store"
        /\ th[t].model_name = "CustomCNN1"
        /\ th[t].state_dict = HeadMap(<<5, 256>>)
        /\ th[t].diag.tier = 2
        /\ \A c \in th[t].model.copied :
               BuiltState(t)[c[1]].k \notin
                   {k_classifier_4_weight, Dotted(Child(s_classifier, 1), s_weight)}
        /\ \E c \in th[t].model.copied :
               BuiltState(t)[c[1]].k = k_features_0_weight /\ c[2] = 3

\* the entries of the map of request t that have two dimensions and a key
\* with classifier, fc or head in it, in any case
NamedCandidates(t) ==
    {i \in 1..Len(th[t].state_dict.items) :
        /\ Len(th[t].state_dict.items[i].v.shape) = 2
        /\ \E term \in {s_classifier, s_fc, s_head} :
               Contains(term, lower(th[t].state_dict.items[i].k.s))}

\* those of them whose key also has weight in it, in lower case
WeightCandidates(t) ==
    {i \in NamedCandidates(t) : Contains(s_weight, th[t].state_dict.items[i].k.s)}

\* request t has run the detection on a parameter map
Detected(t) ==
    /\ th[t].pc \in {"build", "store"} \/ Finished(t)
    /\ th[t].nreads = 1
    /\ th[t].bound
    /\ IsParameterMap(th[t].state_dict)

\* C19 as stated: the detection is undetermined exactly when no entry has
\* two dimensions and classifier, fc or head in its key, and then the
\* instance is built with the configured default.
C19_CandidatesByName ==
    \A t \in Threads :
        Detected(t) =>
            /\ th[t].detected_num_classes.raised = ""
            /\ th[t].detected_num_classes.none <=> NamedCandidates(t) = {}
            /\ (NamedCandidates(t) = {} /\ th[t].model.id # 0)
                   => th[t].model.num_classes = th[t].default_num_classes

\* C19 amended: the same with the further condition that the key contains
\* "weight".
C19_CandidatesByNameAndWeight ==
    \A t \in Threads :
        Detected(t) =>
            /\ th[t].detected_num_classes.raised = ""
            /\ th[t].detected_num_classes.none <=> WeightCandidates(t) = {}
            /\ (WeightCandidates(t) = {} /\ th[t].model.id # 0)
                   => th[t].model.num_classes = th[t].default_num_classes

\* a map whose only named entry, head.6.proj of shape [2,128], has no
\* "weight" in its key was loaded with the default of 5 classes
C19_Witness ==
    \E t \in Threads :
        /\ Detected(t)
        /\ th[t].pc = "store"
        /\ NamedCandidates(t) # {}
        /\ WeightCandidates(t) = {}
        /\ th[t].detected_num_classes = ReturnedNone
        /\ th[t].model.num_classes = 5
        /\ th[t].default_num_classes = 5

-----------------------------------------------------------------------------
(* liveness *)

\* request t called load_model for a name whose artifact is on disk and
\* readable (the directory does not change under SpecLive)
CalledOnReadable(t) ==
    /\ th[t].called
    /\ OnDisk(th[t].model_name)
    /\ files[model_paths[th[t].model_name]] # Corrupt

\* C17: the state every call on a name with a readable artifact is to reach
\* under fair scheduling: once such a call is over it has returned an
\* instance and the name is a key of loaded_models.
C17_CompletedIsCached ==
    \A t \in Threads :
        (CalledOnReadable(t) /\ Finished(t))
        => /\ th[t].outcome = "returned"
           /\ th[t].model_name \in DOMAIN loaded_models

-----------------------------------------------------------------------------
(* the heuristic scan of the checkpoint formats: properties *)

\* none of the three wrapper keys is a key of the checkpoint under test
ArgUnwrapped ==
    /\ IsDict(arg)
    /\ ~HasKey(arg, PyStr(s_model_state_dict))
    /\ ~HasKey(arg, PyStr(s_state_dict))
    /\ ~HasKey(arg, PyStr(s_model))

\* the positions of the keys whose lower-cased name holds "state_dict" or "model"
ArgMatching == {i \in 1..Len(arg.items) : MatchesWrapper(arg.items[i].k)}

ArgFirstMatching == CHOOSE i \in ArgMatching : \A j \in ArgMatching : i <= j

\* C21: for a mapping without the three wrapper keys the checkpoint formats
\* give the value under the first key, in iteration order, whose lower-cased
\* name contains "state_dict" or "model", and the mapping itself when no key
\* matches; no exception is raised on the way.
C21_FirstHeuristicMatch ==
    (ret # NotRun /\ ArgUnwrapped) =>
        /\ ret.raised = ""
        /\ ret.state_dict = IF ArgMatching # {} THEN arg.items[ArgFirstMatching].v ELSE arg

-----------------------------------------------------------------------------
(* the variant of the instance: properties *)

\* request t is past the variant selector and the constructor
PastBuild(t) == th[t].nreads > 0 /\ th[t].pc \in {"store", "idle"}

\* the positions of the map of request t with a two-dimensional tensor of shape
\* (num_classes, 128)
SimpleShaped(t) ==
    {i \in 1..Len(th[t].state_dict.items) :
        /\ Len(th[t].state_dict.items[i].v.shape) = 2
        /\ th[t].state_dict.items[i].v.shape = <<th[t].num_classes, 128>>}

\* C22 as stated: the variant is "simple" exactly when the name is
\* BinaryCNN_Deep and the parameter map has an entry named
\* classifier.4.weight of shape (num_classes, 128), and the instance is built
\* with that variant.
C22_SimpleIffNamedEntry ==
    \A t \in Threads :
        (PastBuild(t) /\ IsParameterMap(th[t].state_dict))
        => /\ th[t].model.id # 0
           /\ th[t].model.variant = th[t].variant
           /\ th[t].variant = "simple" <=>
                  /\ th[t].model_name = "BinaryCNN_Deep"
                  /\ \E i \in SimpleShaped(t) :
                         th[t].state_dict.items[i].k.s = k_classifier_4_weight

\* C22: the variant is "simple" exactly when the name is BinaryCNN_Deep and
\* the parameter map has an entry whose key contains classifier.4.weight
\* with a two-dimensional tensor of shape (num_classes, 128); otherwise it
\* is "default", and the instance is built with that variant.
C22_SimpleIffEntryContaining ==
    \A t \in Threads :
        (PastBuild(t) /\ IsParameterMap(th[t].state_dict))
        => /\ th[t].model.id # 0
           /\ th[t].model.variant = th[t].variant
           /\ th[t].variant \in {"simple", "default"}
           /\ th[t].variant = "simple" <=>
                  /\ th[t].model_name = "BinaryCNN_Deep"
                  /\ \E i \in SimpleShaped(t) :
                         Contains(s_classifier_4_weight, th[t].state_dict.items[i].k.s)

\* a BinaryCNN_Deep checkpoint saved with the module. prefix was built with
\* the simple head: classifier.4 is the final layer, of shape [2,128]
C22_Witness ==
    \E t \in Threads :
        /\ PastBuild(t)
        /\ th[t].model_name = "BinaryCNN_Deep"
        /\ IsParameterMap(th[t].state_dict)
        /\ \E i \in SimpleShaped(t) :
               th[t].state_dict.items[i].k.s = k_module_classifier_4_weight
        /\ th[t].model.variant = "simple"
        /\ \E j \in 1..Len(BuiltState(t)) :
               BuiltState(t)[j].k = k_classifier_4_weight /\ BuiltState(t)[j].shape = <<2, 128>>

-----------------------------------------------------------------------------
(* the descriptors in model_configs: properties *)

\* class-count inference gave a count
Determined(r) == r.raised = "" /\ ~r.none

\* C23: the descriptors start as the configured defaults of their names, no
\* descriptor is added or removed afterwards, and the descriptor of n changes
\* only in the step of a load_model(n) call that reads the checkpoint and
\* whose class-count inference gave a count; cache hits, loads of other
\* names, loads without a count and predict_image leave it as it is.
C23_DescriptorFrame ==
    /\ \A n \in DOMAIN model_configs : model_configs[n] = MODEL_CONFIGS[n]
    /\ [][ /\ DOMAIN model_configs' = DOMAIN model_configs
           /\ \A n \in DOMAIN model_configs :
                  model_configs'[n] # model_configs[n]
                  => \E t \in Threads :
                         /\ th[t].model_name = n
                         /\ th[t].pc = "read"
                         /\ th'[t].pc = "build"
                         /\ Determined(th'[t].detected_num_classes) ]_vars

\* the descriptor of CustomCNN1 was changed to two classes by a load, and a
\* later request for it was served from the cache and ran predict_image
C23_Witness ==
    /\ model_configs["CustomCNN1"] = [num_classes |-> 2, class_names |-> TwoClasses]
    /\ \E t \in Threads :
           th[t].model_name = "CustomCNN1" /\ th[t].hit /\ th[t].predicted

-----------------------------------------------------------------------------
(* the cache write: properties *)

\* request t built an instance and its bind ended without error
Bound(l) == l.model.id # 0 /\ l.diag.tier # 0 /\ l.diag.raised = ""

\* C24: loaded_models changes only in the last step of a load_model call
\* whose build and bind ended without error, and in every state every
\* instance in loaded_models is in inference mode and holds exactly the
\* tensors the finished bind of the request that built it copied.
C24_CachedIsBound ==
    /\ [][loaded_models' # loaded_models
            => \E t \in Threads :
                   /\ th[t].pc = "store"
                   /\ Bound(th[t])
                   /\ loaded_models' = (th[t].model_name :> th'[t].result) @@ loaded_models]_vars
    /\ [](\A n \in DOMAIN loaded_models :
             /\ ~loaded_models[n].training
             /\ loaded_models[n].name = n
             /\ \E t \in Threads :
                    /\ loaded_models[n].id = t
                    /\ th[t].model_name = n
                    /\ Bound(th[t])
                    /\ th[t].outcome = "returned"
                    /\ loaded_models[n].copied = th[t].diag.copied
                    /\ loaded_models[n].copied
                           = Copied(BuiltState(t), th[t].state_dict))

\* an instance of CustomCNN1 is in the cache while another request is still
\* between its build and its cache write for the same name
C24_Witness ==
    /\ "CustomCNN1" \in DOMAIN loaded_models
    /\ \E t \in Threads :
           /\ th[t].model_name = "CustomCNN1"
           /\ th[t].pc = "store"
           /\ th[t].model.training
           /\ loaded_models["CustomCNN1"].id # t

-----------------------------------------------------------------------------
(* the fallback of class-count detection: properties *)

\* the candidates of the parameter map under test, highest layer index first
ArgCandidates == SortByIndexDesc(CandidateLayers(arg.items))

\* detection takes the fallback of app.py:209-214 on the map under test
ArgTakesFallback ==
    /\ ArgCandidates # <<>>
    /\ \A i \in 1..Len(ArgCandidates) : ~Reasonable(ArgCandidates[i])

\* C25: when detection takes the fallback, what it returns is something other
\* than the bare class count a confident detection of that number returns.
C25_FallbackSignalled ==
    (ret # NotRun /\ ArgTakesFallback) => ret # Returned(ArgCandidates[1].output_dim)

-----------------------------------------------------------------------------
(* create_model_architecture: properties *)

\* C26: create_model_architecture raises ValueError, and builds nothing,
\* exactly for the names without a branch; every key of MODEL_CONFIGS has a
\* branch, every name of the path table is such a key, and no load_model
\* call on a name of the path table ends with the ValueError of
\* create_model_architecture.
C26_UnknownArchitecture ==
    /\ ret # NotRun =>
           /\ ret.raised = "ValueError" <=> arg.model_name \notin Constructors
           /\ ret.raised = "" <=> ret.built
           /\ ret.raised \in {"", "ValueError"}
           /\ arg.model_name \in DOMAIN MODEL_CONFIGS => ret.built
    /\ DOMAIN model_paths \subseteq DOMAIN MODEL_CONFIGS
    /\ \A t \in Threads :
           (th[t].model_name \in DOMAIN model_paths /\ PastBuild(t))
           => /\ th[t].model.id # 0
              /\ ~(th[t].outcome = "raised" /\ th[t].error = "ValueError")

\* the call for the lower-case name customcnn1 raised, and a load_model call
\* for BinaryCNN_Deep from the path table has built its instance
C26_Witness ==
    /\ arg.model_name = "customcnn1"
    /\ ret # NotRun
    /\ ret.raised = "ValueError"
    /\ \E t \in Threads :
           /\ th[t].model_name = "BinaryCNN_Deep"
           /\ th[t].pc = "store"
           /\ th[t].model.id # 0

-----------------------------------------------------------------------------
(* the descriptor after a failed load: properties *)

\* C27: when a load_model(n) call has ended with an error, model_configs[n]
\* is what it was when the call was made.
C27_FailedLoadKeepsDescriptor ==
    \A t \in Threads :
        (Finished(t) /\ th[t].outcome = "raised" /\ th[t].model_name \in DOMAIN model_configs)
        => model_configs[th[t].model_name] = th[t].config_at_call

-----------------------------------------------------------------------------
(* the descriptor of a cached instance: properties *)

\* C28: every name in loaded_models has a descriptor in model_configs with as
\* many class names as its num_classes says, and that is the class count the
\* cached instance was built with; predict_image on an instance load_model
\* returned raises nothing and names a class of the descriptor.
C28_DescriptorMatchesInstance ==
    /\ \A n \in DOMAIN loaded_models :
           /\ n \in DOMAIN model_configs
           /\ Len(model_configs[n].class_names) = model_configs[n].num_classes
           /\ model_configs[n].num_classes = loaded_models[n].num_classes
    /\ \A t \in Threads :
           th[t].predicted
           => /\ th[t].prediction.raised = ""
              /\ th[t].prediction.predicted_class
                     \in Range(model_configs[th[t].model_name].class_names)

\* CustomCNN1, configured with five classes, is cached as the two-class
\* instance its checkpoint gave, and predict_image named the second class
C28_Witness ==
    /\ "CustomCNN1" \in DOMAIN loaded_models
    /\ loaded_models["CustomCNN1"].num_classes = 2
    /\ MODEL_CONFIGS["CustomCNN1"].num_classes = 5
    /\ \E t \in Threads :
           /\ th[t].model_name = "CustomCNN1"
           /\ th[t].predicted
           /\ th[t].prediction.predicted_class = "Not Healthy"

-----------------------------------------------------------------------------
(* the keys of the three tables: properties *)

\* C29: once the scan is over, every name in loaded_models has a path, the
\* names with a path are the names with a descriptor, and every name with a
\* path is a key of MODEL_CONFIGS.
C29_TableKeys ==
    ScanDone =>
        /\ DOMAIN loaded_models \subseteq DOMAIN model_paths
        /\ DOMAIN model_paths = DOMAIN model_configs
        /\ DOMAIN model_paths \subseteq DOMAIN MODEL_CONFIGS

\* CustomCNN1 and CustomCNN2 were bound by the scan and CustomCNN1 alone
\* has been loaded
C29_Witness ==
    /\ ScanDone
    /\ DOMAIN model_paths = {"CustomCNN1", "CustomCNN2"}
    /\ DOMAIN loaded_models = {"CustomCNN1"}

\* a request for ResNet50, a name without a path, has ended with the
\* not-found error and is in no table
C29_WitnessUnknownName ==
    /\ ScanDone
    /\ DOMAIN model_paths # {}
    /\ \E t \in Threads :
           /\ th[t].model_name = "ResNet50"
           /\ th[t].outcome = "raised"
           /\ th[t].error = "ValueError"

-----------------------------------------------------------------------------
(* C30 *)

\* every spot row a step writes has exactly one analysis row once the step
\* is taken
ExactlyOne ==
    \A s \in db'.spots \ db.spots :
        Cardinality({a \in db'.analysis_results : a.spot_id = s.id}) = 1

\* every analysis row stored belongs to a spot row stored. The commits of
\* create_spot keep this; the commits of delete_spot and delete_field need
\* not: their SELECTs (1028, 1029; 856, 857) and their DELETE by id (1030,
\* 858) are apart, so when the spot read is deleted by another request
\* before its analysis is read, and a new spot then gets the id again, the
\* DELETE removes the new spot and leaves its analysis
RowsPaired ==
    \A a \in db.analysis_results : \E s \in db.spots : s.id = a.spot_id

\* a step writes a spot row exactly when it writes the analysis row for it:
\* the two are persisted by the same commit
SameCommit ==
    {s.id : s \in db'.spots \ db.spots}
        = {a.spot_id : a \in db'.analysis_results \ db.analysis_results}

\* form is posted to create_spot and answered in this step
AnsweredAtOnce(form) ==
    /\ \E t \in Threads : CS_Request(t, form)
    /\ rq'.of = rq.of

\* thread t answers the create_spot request it serves in this step
Answers(t) ==
    /\ rq.of[t].pc \in {"flush", "assess", "load_model", "to_dict", "spot_analysis",
                        "analysis_to_dict"}
    /\ rq'.of[t].pc = "idle"

\* the point of the form lies outside the bounding box of polygon_coords,
\* hence outside the polygon
PointOutside(form, polygon_coords) ==
    /\ form.parsed
    /\ LET b == calculate_field_bounds(polygon_coords)
       IN /\ b # None
          /\ \/ form.latitude < b.min_lat
             \/ form.latitude > b.max_lat
             \/ form.longitude < b.min_lng
             \/ form.longitude > b.max_lng

\* the form has no image part, or one without a file name
ImageMissing(form) == ~form.has_image \/ form.filename = ""

\* the request of thread t reached the analysis and one of its steps fails:
\* the quality check could not read the image, no model is available,
\* load_model raised or predict_image raised
AnalysisFailed(t) ==
    \/ /\ rq.of[t].pc = "assess"
       /\ ~is_unusable(assess_image_quality(rq.of[t].form.image))
       /\ ModelCandidates(rq.of[t].form.model) = {}
    \/ /\ rq.of[t].pc = "load_model"
       /\ \/ ~assess_image_quality(rq.of[t].form.image).measured
          \/ th[t].outcome = "raised"
          \/ th[t].predicted /\ th[t].prediction.raised # ""

\* the step answers with an error and writes no row
Refused ==
    /\ rq'.response.code >= 400
    /\ db'.spots = db.spots
    /\ db'.analysis_results = db.analysis_results

\* thread t has not committed the rows of its request
NothingWritten(t) == rq.of[t].pc \notin {"to_dict", "spot_analysis", "analysis_to_dict"}

\* the requests create_spot has to refuse are refused in this step: those
\* answered at once, for the polygon of the field as it is stored, and those
\* answered after the flush, for the polygon the handler has read
RefusesInStep(with_point) ==
    /\ \A form \in SpotForms :
           /\ AnsweredAtOnce(form)
           /\ \/ ImageMissing(form)
              \/ /\ with_point
                 /\ form.field_id \in DOMAIN db.fields
                 /\ PointOutside(form, db.fields[form.field_id])
           => Refused
    /\ \A t \in Threads :
           /\ Answers(t)
           /\ \/ ImageMissing(rq.of[t].form)
              \/ AnalysisFailed(t)
              \/ with_point /\ PointOutside(rq.of[t].form, rq.of[t].polygon_coords)
           => Refused /\ NothingWritten(t)

\* C30: create_spot is atomic over the records: a Spot row is persisted if
\* and only if exactly one AnalysisResult row for it is persisted in the same
\* commit, and a request whose point is outside the field polygon, whose
\* image is missing or whose analysis fails is answered with an error and
\* persists neither row.
C30_SpotAtomic == [][ExactlyOne /\ SameCommit /\ RefusesInStep(TRUE)]_vars

\* the same without the requests whose point is outside the polygon
C30_AtomicButForThePoint == [][ExactlyOne /\ SameCommit /\ RefusesInStep(FALSE)]_vars
====
